---- MODULE Spec2Model ----
(***************************************************************************)
(* process-monitor: a supervisor that runs one child on a pty, restarts it *)
(* with a doubling back-off, forwards signals and takes one-byte commands  *)
(* from a named fifo.  The model follows src/process-monitor.c: one action *)
(* per handler of the select() loop, plus the environment (the child, the  *)
(* kernel timer, external signal senders and fifo writers).                *)
(***************************************************************************)
EXTENDS Integers, Sequences, FiniteSets, TLC

\* ------------------------------------------------------------- bounds
MaxPid == 2          \* pids the kernel hands out: 1..MaxPid
MaxPipe == 1         \* signal tokens in flight in the self-pipe
MaxFifo == 1         \* command bytes in flight in the fifo
MaxExits == 5        \* the exit counter of the history saturates here

\* The command lines explored: -d, -p, -P, -m, -M.
Config(d, p, f, m, M) == [daemon |-> d, pidfile |-> p, fifo |-> f, min |-> m, max |-> M]
Configs == { Config(FALSE, TRUE, TRUE, 3, 1),
             Config(TRUE, TRUE, FALSE, 40, 100),
             Config(TRUE, FALSE, TRUE, 0, 1),
             Config(FALSE, FALSE, FALSE, 2, 8) }

\* ---------------------------------------------------- program constants
NoPid == -1              \* child_pid when no child is tracked
NoFd == -1               \* a descriptor that is not open
PtyMasterFd == 5         \* the descriptor forkpty() stores in pty_fd
FifoReadFd == 3          \* open(command_fifo_name, O_RDONLY|O_NONBLOCK)
FifoWriteFd == 4         \* open(command_fifo_name, O_WRONLY)
ForkFailWait == 60       \* child_wait_time after a failed forkpty()
ShutdownWait == 5        \* min/max wait time set by kill_child_and_exit()

Tokens == {"A", "C", "H", "I", "T", "1", "2"}      \* signal_handler()
Commands == {"+", "-", "h", "i", "x", "u"}         \* "u": any other byte
Pids == 1..MaxPid
\* history: consecutive exits so far, or Tainted once an operator event or a
\* fork failure has happened
Tainted == MaxExits + 1

VARIABLES
    \* configuration (main)
    is_daemon, pid_file, command_fifo_name,
    min_child_wait_time, max_child_wait_time,
    \* supervisor
    pc, ready, in_shutdown, exit_code, exit_via,
    child_pid, pty_fd, do_restart, do_exit, child_wait_time,
    command_fifo_fd, command_fifo_write_fd,
    signal_command_pipe,
    \* environment
    proc, pty_in, pty_hup, fifo, alarm_pending, pid_file_exists,
    \* what the last step did: the signal sent to the child, the seconds
    \* passed to alarm(), whether it called start_child()
    kill_sent, alarm_set, spawn_tried,
    \* the token whose handler ran last, while nothing but signal deliveries
    \* has happened since
    prev_event,
    \* history
    hist, fifo_eof,
    \* the pty line reader: the line buffer (pty_data_len is its length), the
    \* records handed to logchild(), and for the record: the bytes read from
    \* the pty so far, the highest index of pty_data[] written so far, and
    \* the buffered bytes that were read from a child since reaped
    pty_data, child_log, pty_stream, max_index, stale,
    \* the descriptors the supervisor holds open on its signal pipe and on
    \* the command fifo, counted by kind
    open_fds,
    \* the child branch of start_child(): where the forked child is and what
    \* it has done so far
    child_branch,
    \* the list that add_env() builds with envlist_new() and envlist_add()
    envl

cfgvars == <<is_daemon, pid_file, command_fifo_name>>
waitcfg == <<min_child_wait_time, max_child_wait_time>>
exitvars == <<exit_code, exit_via, pid_file_exists>>
childvars == <<child_pid, pty_fd, proc, pty_in, pty_hup>>
policy == <<do_restart, do_exit>>
fifofds == <<command_fifo_fd, command_fifo_write_fd, fifo_eof>>

\* The kinds of descriptor counted in open_fds.
FdKinds == {"pipe_r", "pipe_w", "fifo_r", "fifo_w"}

Opened(fds, k) == [fds EXCEPT ![k] = @ + 1]
Closed(fds, k) == [fds EXCEPT ![k] = @ - 1]

\* pipe() gives two new descriptors; the variables that held the old ones
\* are overwritten.
make_signal_command_pipe_opens(fds) == Opened(Opened(fds, "pipe_r"), "pipe_w")

\* make_command_fifo() opens the fifo for reading and again for writing; it
\* closes nothing.
make_command_fifo_opens(fds) ==
    IF command_fifo_name THEN Opened(Opened(fds, "fifo_r"), "fifo_w") ELSE fds

\* The child branch before any fork, and the env list before any -E.
ChildConfigs == [groupname : BOOLEAN, uid : {0, 1}, dir : BOOLEAN,
                 startup_sh : BOOLEAN]
NotForked == [at |-> "parent", done |-> <<>>,
              cfg |-> [groupname |-> FALSE, uid |-> 0, dir |-> FALSE,
                       startup_sh |-> FALSE],
              failed |-> "none", status |-> -1]
NoEnvlist == [at |-> "none", len |-> 0, maxlen |-> 0, env |-> 0,
              size |-> <<0, 0>>, cells |-> << <<>>, <<>> >>, freed |-> {},
              stray |-> FALSE, added |-> <<>>]

linevars == <<pty_data, child_log, pty_stream, max_index, stale>>

\* What the steps of the event loop and of its environment leave alone.
aside == <<pty_data, child_log, pty_stream, max_index, stale, child_branch, envl>>

vars == <<pty_data, child_log, pty_stream, max_index, stale,
          open_fds, child_branch, envl,
          is_daemon, pid_file, command_fifo_name,
          min_child_wait_time, max_child_wait_time,
          pc, ready, in_shutdown, exit_code, exit_via,
          child_pid, pty_fd, do_restart, do_exit, child_wait_time,
          command_fifo_fd, command_fifo_write_fd, signal_command_pipe,
          proc, pty_in, pty_hup, fifo, alarm_pending, pid_file_exists,
          kill_sent, alarm_set, spawn_tried, prev_event, hist, fifo_eof>>

Max(a, b) == IF a >= b THEN a ELSE b
Min(a, b) == IF a <= b THEN a ELSE b

\* ------------------------------------------------------------ Init
\* The process image before main() runs: the static initialisers of the
\* globals, with the command line already chosen.
Init ==
    /\ \E c \in Configs :
          /\ is_daemon = c.daemon
          /\ pid_file = c.pidfile
          /\ command_fifo_name = c.fifo
          /\ min_child_wait_time = c.min
          /\ max_child_wait_time = c.max
    /\ pc = "startup"
    /\ ready = {}
    /\ in_shutdown = FALSE
    /\ exit_code = -1
    /\ exit_via = "none"
    /\ child_pid = NoPid
    /\ pty_fd = NoFd
    /\ do_restart = TRUE
    /\ do_exit = FALSE
    /\ child_wait_time = 2
    /\ command_fifo_fd = NoFd
    /\ command_fifo_write_fd = NoFd
    /\ signal_command_pipe = <<>>
    /\ proc = [p \in Pids |-> "none"]
    /\ pty_in = 0
    /\ pty_hup = FALSE
    /\ fifo = <<>>
    /\ alarm_pending = FALSE
    /\ alarm_set = 0
    /\ pid_file_exists = FALSE
    /\ kill_sent = "none"
    /\ spawn_tried = FALSE
    /\ prev_event = "none"
    /\ hist = 0
    /\ fifo_eof = FALSE
    /\ pty_data = <<>>
    /\ child_log = <<>>
    /\ pty_stream = <<>>
    /\ max_index = -1
    /\ stale = 0
    /\ open_fds = [k \in FdKinds |-> 0]
    /\ child_branch = NotForked
    /\ envl = NoEnvlist

Running == pc \notin {"startup", "exited", "blocked"}

\* ------------------------------------------------- leaving and returning
\* atexit(delete_pid_file) is registered only when a pid file was written.
delete_pid_file_skipped(exists) == exists
delete_pid_file(exists) == IF pid_file THEN FALSE ELSE exists

\* exit(code): the exit hooks run, the process is gone.
Exit(code, via) ==
    /\ pc' = "exited"
    /\ exit_code' = code
    /\ exit_via' = via
    /\ pid_file_exists' = delete_pid_file(pid_file_exists)

\* The handler returns to the loop that called it.
Return(ret) ==
    /\ pc' = ret
    /\ UNCHANGED exitvars

\* -------------------------------------------------------- pure helpers
set_child_wait_time_nosat(w) == w * 2
set_child_wait_time(w) ==
    LET d == w * 2
    IN  IF d >= max_child_wait_time THEN max_child_wait_time ELSE d

\* alarm(wait_time) in handle_child_signal: never alarm(0), which would
\* cancel the timer instead of arming it.
AlarmSecondsRaw(w) == w
AlarmSeconds(w) == IF w = 0 THEN 1 ELSE w

\* read_pty_fd(): reads until EWOULDBLOCK (the pty stays open) or until
\* end-of-file / EIO (pty_fd becomes -1).  Descriptor 0 counts as absent.
PtyFdAfterRead == IF pty_fd <= 0 THEN pty_fd ELSE IF pty_hup THEN NoFd ELSE pty_fd
PtyInAfterRead == IF pty_fd <= 0 THEN pty_in ELSE 0
PtyHupAfterRead == IF pty_fd <= 0 THEN pty_hup ELSE FALSE

\* waitpid(-1, &status, WNOHANG): a zombie's pid, 0 when children exist but
\* none has exited, -1 when there is no child at all.
WaitpidResults_blocking ==
    IF \E p \in Pids : proc[p] # "none"
    THEN {p \in Pids : proc[p] # "none"}
    ELSE {-1}

WaitpidResults ==
    IF \E p \in Pids : proc[p] = "zombie"
    THEN {p \in Pids : proc[p] = "zombie"}
    ELSE IF \E p \in Pids : proc[p] # "none" THEN {0} ELSE {-1}

\* handle_child_signal(): "if (pty_fd >= 0) { close(pty_fd); pty_fd = -1; }"
close_pty_skipped(fd) == fd
close_pty_on_reap(fd) == IF fd >= 0 THEN NoFd ELSE fd

\* handle_child_signal(): "if (do_exit)" is tested before "if (do_restart)".
exit_on_death_unless_restart == do_exit /\ ~do_restart
exit_on_death == do_exit

Bump(h) == IF h = Tainted THEN Tainted ELSE Min(h + 1, MaxExits)

\* ----------------------------------------------------------- start_child
\* A forkpty() whose failure leaves the master side of the pty in pty_fd.
start_child_failure_leaves_pty(w) ==
    /\ spawn_tried' = TRUE
    /\ \/ /\ \E p \in Pids : proc[p] = "none"
          /\ LET pid == CHOOSE p \in Pids :
                           proc[p] = "none" /\ \A q \in Pids : proc[q] = "none" => p <= q
             IN
             /\ child_pid' = pid
             /\ pty_fd' = PtyMasterFd
             /\ proc' = [proc EXCEPT ![pid] = "forked"]
             /\ pty_in' = 0
             /\ pty_hup' = FALSE
             /\ child_wait_time' = w
             /\ hist' = hist
       \/ /\ child_pid' = NoPid
          /\ child_wait_time' = ForkFailWait
          /\ hist' = Tainted
          /\ pty_fd' = PtyMasterFd
          /\ UNCHANGED <<proc, pty_in, pty_hup>>

\* forkpty(): on success the parent records the pid and the pty master; on
\* failure forkpty() leaves pty_fd alone and the wait time is pinned.
\* w is child_wait_time as the caller left it.
start_child(w) ==
    /\ spawn_tried' = TRUE
    /\ \/ /\ \E p \in Pids : proc[p] = "none"
          /\ LET pid == CHOOSE p \in Pids :
                           proc[p] = "none" /\ \A q \in Pids : proc[q] = "none" => p <= q
             IN
             /\ child_pid' = pid
             /\ pty_fd' = PtyMasterFd
             /\ proc' = [proc EXCEPT ![pid] = "forked"]
             /\ pty_in' = 0
             /\ pty_hup' = FALSE
             /\ child_wait_time' = w
             /\ hist' = hist
       \/ /\ child_pid' = NoPid
          /\ child_wait_time' = ForkFailWait
          /\ hist' = Tainted
          /\ UNCHANGED <<pty_fd, proc, pty_in, pty_hup>>

\* --------------------------------------------------------- the handlers
\* Each handler fragment fixes: pc and exitvars, childvars, policy,
\* child_wait_time, waitcfg, alarm_pending, kill_sent, alarm_set, hist,
\* in_shutdown.

handle_alarm_signal_noexit(ret) ==
    /\ IF do_restart /\ child_pid <= 0
       THEN start_child(child_wait_time)
       ELSE /\ spawn_tried' = FALSE
            /\ UNCHANGED <<childvars, child_wait_time, hist>>
    /\ Return(ret)
    /\ kill_sent' = "none"
    /\ alarm_set' = 0
    /\ UNCHANGED <<policy, waitcfg, alarm_pending, in_shutdown, exitvars>>

handle_alarm_signal_always(ret) ==
    /\ IF child_pid <= 0
       THEN start_child(child_wait_time)
       ELSE /\ spawn_tried' = FALSE
            /\ UNCHANGED <<childvars, child_wait_time, hist>>
    /\ IF do_exit THEN Exit(1, "alarm") ELSE Return(ret)
    /\ kill_sent' = "none"
    /\ alarm_set' = 0
    /\ UNCHANGED <<policy, waitcfg, alarm_pending, in_shutdown>>

handle_alarm_signal(ret) ==
    /\ IF do_restart /\ child_pid <= 0
       THEN start_child(child_wait_time)
       ELSE /\ spawn_tried' = FALSE
            /\ UNCHANGED <<childvars, child_wait_time, hist>>
    /\ IF do_exit THEN Exit(1, "alarm") ELSE Return(ret)
    /\ kill_sent' = "none"
    /\ alarm_set' = 0
    /\ UNCHANGED <<policy, waitcfg, alarm_pending, in_shutdown>>

reap_ignored_never(pid) == FALSE

reap_ignored(pid) == pid = -1 \/ child_pid = -1 \/ pid # child_pid

handle_child_signal(ret) ==
    \E pid \in WaitpidResults :
        /\ spawn_tried' = FALSE
        /\ proc' = IF pid > 0 THEN [proc EXCEPT ![pid] = "none"] ELSE proc
        /\ pty_in' = PtyInAfterRead
        /\ kill_sent' = "none"
        /\ UNCHANGED <<policy, waitcfg, in_shutdown>>
        /\ IF reap_ignored(pid)
           THEN /\ pty_fd' = PtyFdAfterRead
                /\ pty_hup' = PtyHupAfterRead
                /\ Return(ret)
                /\ alarm_set' = 0
                /\ UNCHANGED <<child_pid, child_wait_time, alarm_pending, hist>>
           ELSE /\ child_pid' = NoPid
                /\ pty_fd' = close_pty_on_reap(PtyFdAfterRead)
                /\ pty_hup' = FALSE
                /\ hist' = Bump(hist)
                /\ IF exit_on_death
                   THEN /\ Exit(0, "child")
                        /\ alarm_set' = 0
                        /\ UNCHANGED <<child_wait_time, alarm_pending>>
                   ELSE /\ Return(ret)
                        /\ IF do_restart
                           THEN /\ alarm_set' = AlarmSeconds(child_wait_time)
                                /\ alarm_pending' = (AlarmSeconds(child_wait_time) # 0)
                                /\ child_wait_time' = set_child_wait_time(child_wait_time)
                           ELSE /\ alarm_set' = 0
                                /\ UNCHANGED <<child_wait_time, alarm_pending>>

send_hup_to_child_forward_only(ret) ==
    /\ spawn_tried' = FALSE
    /\ alarm_set' = 0
    /\ kill_sent' = IF child_pid <= 0 THEN "none" ELSE "HUP"
    /\ Return(ret)
    /\ UNCHANGED <<childvars, child_wait_time, waitcfg, alarm_pending, hist,
                   in_shutdown, policy>>

send_hup_to_child(ret) ==
    /\ spawn_tried' = FALSE
    /\ alarm_set' = 0
    /\ UNCHANGED <<childvars, child_wait_time, waitcfg, alarm_pending, hist,
                   in_shutdown>>
    /\ IF is_daemon
       THEN /\ kill_sent' = IF child_pid <= 0 THEN "none" ELSE "HUP"
            /\ Return(ret)
            /\ UNCHANGED policy
       ELSE IF child_pid >= 0
            THEN /\ kill_sent' = "HUP"
                 /\ do_restart' = FALSE
                 /\ do_exit' = TRUE
                 /\ Return(ret)
            ELSE /\ kill_sent' = "none"
                 /\ Exit(1, "hup")
                 /\ UNCHANGED policy

send_int_to_child_nolatch(ret) ==
    /\ spawn_tried' = FALSE
    /\ alarm_set' = 0
    /\ UNCHANGED <<childvars, child_wait_time, waitcfg, alarm_pending, hist,
                   in_shutdown, policy>>
    /\ kill_sent' = IF child_pid <= 0 THEN "none" ELSE "INT"
    /\ IF child_pid <= 0 /\ ~is_daemon THEN Exit(1, "int") ELSE Return(ret)

send_int_to_child_latches(ret) ==
    /\ spawn_tried' = FALSE
    /\ alarm_set' = 0
    /\ UNCHANGED <<childvars, child_wait_time, waitcfg, alarm_pending, hist,
                   in_shutdown>>
    /\ IF child_pid <= 0
       THEN /\ kill_sent' = "none"
            /\ UNCHANGED policy
            /\ IF is_daemon THEN Return(ret) ELSE Exit(1, "int")
       ELSE /\ kill_sent' = "INT"
            /\ Return(ret)
            /\ do_restart' = FALSE
            /\ do_exit' = TRUE

send_int_to_child(ret) ==
    /\ spawn_tried' = FALSE
    /\ alarm_set' = 0
    /\ UNCHANGED <<childvars, child_wait_time, waitcfg, alarm_pending, hist,
                   in_shutdown>>
    /\ IF child_pid <= 0
       THEN /\ kill_sent' = "none"
            /\ UNCHANGED policy
            /\ IF is_daemon THEN Return(ret) ELSE Exit(1, "int")
       ELSE /\ kill_sent' = "INT"
            /\ Return(ret)
            /\ IF is_daemon
               THEN UNCHANGED policy
               ELSE /\ do_restart' = FALSE
                    /\ do_exit' = TRUE

\* A Term handler that latches the exit even when there is no child to wait
\* for.
handle_term_signal_latches_alone(ret) ==
    /\ spawn_tried' = FALSE
    /\ alarm_set' = 0
    /\ UNCHANGED <<childvars, child_wait_time, waitcfg, alarm_pending, hist,
                   in_shutdown>>
    /\ kill_sent' = IF child_pid <= 0 THEN "none" ELSE "TERM"
    /\ do_restart' = FALSE
    /\ do_exit' = TRUE
    /\ Return(ret)

handle_term_signal_forward_only(ret) ==
    /\ spawn_tried' = FALSE
    /\ alarm_set' = 0
    /\ UNCHANGED <<childvars, child_wait_time, waitcfg, alarm_pending, hist,
                   in_shutdown, policy>>
    /\ IF child_pid <= 0
       THEN /\ kill_sent' = "none"
            /\ Exit(1, "term")
       ELSE /\ kill_sent' = "TERM"
            /\ Return(ret)

handle_term_signal(ret) ==
    /\ spawn_tried' = FALSE
    /\ alarm_set' = 0
    /\ UNCHANGED <<childvars, child_wait_time, waitcfg, alarm_pending, hist,
                   in_shutdown>>
    /\ IF child_pid <= 0
       THEN /\ kill_sent' = "none"
            /\ Exit(1, "term")
            /\ UNCHANGED policy
       ELSE /\ kill_sent' = "TERM"
            /\ do_restart' = FALSE
            /\ do_exit' = TRUE
            /\ Return(ret)

stop_monitoring_toggles(ret) ==
    /\ spawn_tried' = FALSE
    /\ do_restart' = ~do_restart
    /\ kill_sent' = "none"
    /\ alarm_set' = 0
    /\ Return(ret)
    /\ UNCHANGED <<childvars, do_exit, child_wait_time, waitcfg, alarm_pending, hist,
                   in_shutdown>>

stop_monitoring_resets(ret) ==
    /\ spawn_tried' = FALSE
    /\ do_restart' = FALSE
    /\ child_wait_time' = min_child_wait_time
    /\ kill_sent' = "none"
    /\ alarm_set' = 0
    /\ Return(ret)
    /\ UNCHANGED <<childvars, do_exit, waitcfg, alarm_pending, hist, in_shutdown>>

stop_monitoring(ret) ==
    /\ spawn_tried' = FALSE
    /\ do_restart' = FALSE
    /\ kill_sent' = "none"
    /\ alarm_set' = 0
    /\ Return(ret)
    /\ UNCHANGED <<childvars, do_exit, child_wait_time, waitcfg, alarm_pending, hist,
                   in_shutdown>>

start_monitoring_unguarded(ret) ==
    /\ do_restart' = TRUE
    /\ start_child(min_child_wait_time)
    /\ kill_sent' = "none"
    /\ alarm_set' = 0
    /\ Return(ret)
    /\ UNCHANGED <<do_exit, waitcfg, alarm_pending, in_shutdown>>

start_monitoring_keeps_wait(ret) ==
    /\ do_restart' = TRUE
    /\ IF child_pid <= 0
       THEN start_child(min_child_wait_time)
       ELSE /\ spawn_tried' = FALSE
            /\ UNCHANGED <<childvars, child_wait_time, hist>>
    /\ kill_sent' = "none"
    /\ alarm_set' = 0
    /\ Return(ret)
    /\ UNCHANGED <<do_exit, waitcfg, alarm_pending, in_shutdown>>

start_monitoring_unlatches(ret) ==
    /\ do_restart' = TRUE
    /\ do_exit' = FALSE
    /\ IF child_pid <= 0
       THEN start_child(min_child_wait_time)
       ELSE /\ child_wait_time' = min_child_wait_time
            /\ spawn_tried' = FALSE
            /\ UNCHANGED <<childvars, hist>>
    /\ kill_sent' = "none"
    /\ alarm_set' = 0
    /\ Return(ret)
    /\ UNCHANGED <<waitcfg, alarm_pending, in_shutdown>>

start_monitoring(ret) ==
    /\ do_restart' = TRUE
    /\ IF child_pid <= 0
       THEN start_child(min_child_wait_time)
       ELSE /\ child_wait_time' = min_child_wait_time
            /\ spawn_tried' = FALSE
            /\ UNCHANGED <<childvars, hist>>
    /\ kill_sent' = "none"
    /\ alarm_set' = 0
    /\ Return(ret)
    /\ UNCHANGED <<do_exit, waitcfg, alarm_pending, in_shutdown>>

\* kill_child_and_exit() up to its while loop; the loop is ShutdownLoop.
kill_child_and_exit ==
    /\ spawn_tried' = FALSE
    /\ UNCHANGED <<childvars, child_wait_time, alarm_pending, hist>>
    /\ IF child_pid <= 0
       THEN /\ Exit(0, "x")
            /\ kill_sent' = "none"
            /\ alarm_set' = 0
            /\ UNCHANGED <<policy, waitcfg, in_shutdown>>
       ELSE /\ do_restart' = FALSE
            /\ do_exit' = TRUE
            /\ kill_sent' = "TERM"
            /\ alarm_set' = 0
            /\ min_child_wait_time' = ShutdownWait
            /\ max_child_wait_time' = ShutdownWait
            /\ in_shutdown' = TRUE
            /\ Return("shutloop")

\* ------------------------------------------------------------- startup
\* make_command_fifo(): the fifo is opened for reading, then for writing.
make_command_fifo_read == IF command_fifo_name THEN FifoReadFd ELSE command_fifo_fd
make_command_fifo_write_missing == command_fifo_write_fd
make_command_fifo_write == IF command_fifo_name THEN FifoWriteFd ELSE command_fifo_write_fd

\* main() from the wait-time normalisation to monitor_child()'s first
\* start_child().
Startup ==
    /\ UNCHANGED aside
    /\ prev_event' = "none"
    /\ pc = "startup"
    /\ max_child_wait_time' = IF max_child_wait_time < min_child_wait_time
                              THEN min_child_wait_time
                              ELSE max_child_wait_time
    /\ command_fifo_fd' = make_command_fifo_read
    /\ command_fifo_write_fd' = make_command_fifo_write
    /\ open_fds' = make_command_fifo_opens(make_signal_command_pipe_opens(open_fds))
    /\ pid_file_exists' = pid_file
    /\ start_child(min_child_wait_time)
    /\ pc' = "select"
    /\ UNCHANGED <<cfgvars, min_child_wait_time, ready, in_shutdown, exit_code,
                   exit_via, policy, signal_command_pipe, fifo, alarm_pending,
                   kill_sent, alarm_set, fifo_eof>>

\* --------------------------------------------------------- wait_in_select
Readable ==
    (IF pty_fd >= 0 /\ (pty_in > 0 \/ pty_hup) THEN {"pty"} ELSE {})
    \cup (IF signal_command_pipe # <<>> THEN {"sig"} ELSE {})
    \cup (IF command_fifo_fd >= 0 /\ fifo # <<>> THEN {"fifo"} ELSE {})

loopframe == <<cfgvars, waitcfg, in_shutdown, exitvars, childvars, policy,
               child_wait_time, fifofds, signal_command_pipe, fifo, alarm_pending,
               hist>>

\* select() returns the descriptors that are readable.
SelectReady ==
    /\ UNCHANGED <<aside, open_fds>>
    /\ prev_event' = "none"
    /\ spawn_tried' = FALSE
    /\ pc = "select"
    /\ Readable # {}
    /\ ready' = Readable
    /\ pc' = "pty"
    /\ kill_sent' = "none"
    /\ alarm_set' = 0
    /\ UNCHANGED loopframe

\* select() is interrupted by a signal (its handler has written the token):
\* it returns -1/EINTR and leaves read_fds as passed in, every bit set.
SelectInterrupted ==
    /\ UNCHANGED <<aside, open_fds>>
    /\ prev_event' = "none"
    /\ spawn_tried' = FALSE
    /\ pc = "select"
    /\ signal_command_pipe # <<>>
    /\ ready' = {"pty", "sig", "fifo"}
    /\ pc' = "pty"
    /\ kill_sent' = "none"
    /\ alarm_set' = 0
    /\ UNCHANGED loopframe

\* The end of one wait_in_select(): back to monitor_child()'s loop, or to the
\* while loop of kill_child_and_exit().
AfterWait == IF in_shutdown THEN "shutloop" ELSE "select"

\* select() times out after child_wait_time seconds: no handler runs.
SelectTimeout ==
    /\ UNCHANGED <<aside, open_fds>>
    /\ prev_event' = "none"
    /\ spawn_tried' = FALSE
    /\ pc = "select"
    /\ Readable = {}
    /\ ready' = {}
    /\ pc' = AfterWait
    /\ kill_sent' = "none"
    /\ alarm_set' = 0
    /\ UNCHANGED loopframe

\* What wait_in_select() turns to after the pty: the signal pipe.
PhaseAfterPty_fifo == "fifo"

PhaseAfterPty == "sig"

\* "Read data on the pty first so we don't miss any."
PtyPhase ==
    /\ UNCHANGED <<aside, open_fds>>
    /\ prev_event' = "none"
    /\ spawn_tried' = FALSE
    /\ pc = "pty"
    /\ IF pty_fd >= 0 /\ "pty" \in ready
       THEN /\ pty_fd' = PtyFdAfterRead
            /\ pty_in' = PtyInAfterRead
            /\ pty_hup' = PtyHupAfterRead
       ELSE UNCHANGED <<pty_fd, pty_in, pty_hup>>
    /\ ready' = ready \ {"pty"}
    /\ pc' = PhaseAfterPty
    /\ kill_sent' = "none"
    /\ alarm_set' = 0
    /\ UNCHANGED <<cfgvars, waitcfg, in_shutdown, exitvars, child_pid, proc,
                   policy, child_wait_time, fifofds, signal_command_pipe,
                   fifo, alarm_pending, hist>>

\* ------------------------------------------------ read_signal_command_pipe
sigframe == <<cfgvars, ready, fifofds, fifo>>

Token(t) ==
    /\ UNCHANGED <<aside, open_fds>>
    /\ pc = "sig"
    /\ "sig" \in ready
    /\ signal_command_pipe # <<>>
    /\ Head(signal_command_pipe) = t
    /\ signal_command_pipe' = Tail(signal_command_pipe)
    /\ prev_event' = t
    /\ UNCHANGED sigframe

HandleAlarm == Token("A") /\ handle_alarm_signal("sig")
HandleChild == Token("C") /\ handle_child_signal("sig")
HandleHup == Token("H") /\ send_hup_to_child("sig")
HandleInt == Token("I") /\ send_int_to_child("sig")
HandleTerm == Token("T") /\ handle_term_signal("sig")
HandleUsr1 == Token("1") /\ stop_monitoring("sig")
HandleUsr2 == Token("2") /\ start_monitoring("sig")

\* The pipe was not readable, or read() reports EWOULDBLOCK: on to the fifo.
SigDrained ==
    /\ UNCHANGED <<aside, open_fds>>
    /\ prev_event' = "none"
    /\ spawn_tried' = FALSE
    /\ pc = "sig"
    /\ "sig" \notin ready \/ signal_command_pipe = <<>>
    /\ ready' = ready \ {"sig"}
    /\ pc' = "fifo"
    /\ kill_sent' = "none"
    /\ alarm_set' = 0
    /\ UNCHANGED loopframe

\* --------------------------------------------------- read_command_fifo_fd
fifoframe == <<cfgvars, ready, fifofds, signal_command_pipe>>

\* Writers holding the fifo while the supervisor reads: external senders
\* open, write one byte and leave (send_command), so only its own descriptor.
FifoWriters == IF command_fifo_write_fd >= 0 THEN 1 ELSE 0

Command(c) ==
    /\ UNCHANGED <<aside, open_fds>>
    /\ prev_event' = "none"
    /\ pc = "fifo"
    /\ "fifo" \in ready
    /\ command_fifo_fd >= 0
    /\ fifo # <<>>
    /\ Head(fifo) = c
    /\ fifo' = Tail(fifo)
    /\ UNCHANGED fifoframe

CmdStart == Command("+") /\ start_monitoring("fifo")
CmdStop == Command("-") /\ stop_monitoring("fifo")
CmdHup == Command("h") /\ send_hup_to_child("fifo")
CmdInt == Command("i") /\ send_int_to_child("fifo")
CmdExit == Command("x") /\ kill_child_and_exit
\* Any other byte is logged and dropped.
CmdUnknown ==
    /\ spawn_tried' = FALSE
    /\ Command("u")
    /\ kill_sent' = "none"
    /\ alarm_set' = 0
    /\ Return("fifo")
    /\ UNCHANGED <<childvars, policy, child_wait_time, waitcfg, alarm_pending, hist,
                   in_shutdown>>

\* The fifo was not readable, or read() reports EWOULDBLOCK, or it reports
\* end-of-file (no writer holds the fifo): then the fifo is reopened.
FifoDone ==
    /\ UNCHANGED aside
    /\ prev_event' = "none"
    /\ spawn_tried' = FALSE
    /\ pc = "fifo"
    /\ "fifo" \notin ready \/ command_fifo_fd < 0 \/ fifo = <<>>
    /\ IF "fifo" \in ready /\ command_fifo_fd >= 0 /\ FifoWriters = 0
       THEN /\ fifo_eof' = TRUE
            /\ command_fifo_fd' = make_command_fifo_read
            /\ command_fifo_write_fd' = make_command_fifo_write
            /\ open_fds' = make_command_fifo_opens(Closed(open_fds, "fifo_r"))
       ELSE UNCHANGED <<fifofds, open_fds>>
    /\ ready' = {}
    /\ pc' = AfterWait
    /\ kill_sent' = "none"
    /\ alarm_set' = 0
    /\ UNCHANGED <<cfgvars, waitcfg, in_shutdown, exitvars, childvars, policy,
                   child_wait_time, signal_command_pipe, fifo, alarm_pending, hist>>

\* The while loop of kill_child_and_exit(): wait again while the child lives
\* and fewer than 6 seconds have passed; then SIGKILL what is left and exit.
ShutdownLoop ==
    /\ UNCHANGED <<aside, open_fds>>
    /\ prev_event' = "none"
    /\ spawn_tried' = FALSE
    /\ pc = "shutloop"
    /\ alarm_set' = 0
    /\ UNCHANGED <<cfgvars, waitcfg, in_shutdown, childvars, policy,
                   child_wait_time, fifofds, signal_command_pipe, fifo,
                   alarm_pending, hist, ready>>
    /\ \/ /\ child_pid > 0
          /\ kill_sent' = "none"
          /\ Return("select")
       \/ /\ kill_sent' = IF child_pid > 0 THEN "KILL" ELSE "none"
          /\ Exit(0, "x")

\* ------------------------------------------------------- the environment
supframe == <<cfgvars, waitcfg, pc, ready, in_shutdown, exit_code, exit_via,
              child_pid, pty_fd, policy, child_wait_time, fifofds>>

\* signal_handler(): one byte written to the pipe.
signal_handler_prepends(t) == <<t>> \o signal_command_pipe

\* The pipe after signal_handler() has written the token of its signal.
signal_handler(t) == Append(signal_command_pipe, t)

Deliver(t) ==
    /\ Len(signal_command_pipe) < MaxPipe
    /\ signal_command_pipe' = signal_handler(t)

\* The slave side of the pty of the tracked child is closed when it exits.
HangUp(p) == IF p = child_pid /\ pty_fd # NoFd THEN TRUE ELSE pty_hup

\* The forked child branch reaches execv().
ChildExec(p) ==
    /\ UNCHANGED <<aside, open_fds>>
    /\ prev_event' = "none"
    /\ spawn_tried' = FALSE
    /\ Running
    /\ proc[p] = "forked"
    /\ proc' = [proc EXCEPT ![p] = "running"]
    /\ kill_sent' = "none"
    /\ alarm_set' = 0
    /\ UNCHANGED <<supframe, signal_command_pipe, pty_in, pty_hup, fifo,
                   alarm_pending, pid_file_exists, hist>>

\* The forked child branch fails before or at execv() and calls exit(99),
\* which runs the exit hooks it inherited.
ChildExecFails(p) ==
    /\ UNCHANGED <<aside, open_fds>>
    /\ prev_event' = "none"
    /\ spawn_tried' = FALSE
    /\ Running
    /\ proc[p] = "forked"
    /\ proc' = [proc EXCEPT ![p] = "zombie"]
    /\ pid_file_exists' = delete_pid_file(pid_file_exists)
    /\ pty_hup' = HangUp(p)
    /\ Deliver("C")
    /\ kill_sent' = "none"
    /\ alarm_set' = 0
    /\ UNCHANGED <<supframe, pty_in, fifo, alarm_pending, hist>>

\* The running program exits or is killed.  The pty hangs up unless a
\* descendant of the program still holds the slave side open.
ChildExit(p) ==
    /\ UNCHANGED <<aside, open_fds>>
    /\ prev_event' = "none"
    /\ spawn_tried' = FALSE
    /\ Running
    /\ proc[p] = "running"
    /\ proc' = [proc EXCEPT ![p] = "zombie"]
    /\ pty_hup' \in {HangUp(p), pty_hup}
    /\ Deliver("C")
    /\ kill_sent' = "none"
    /\ alarm_set' = 0
    /\ UNCHANGED <<supframe, pty_in, fifo, alarm_pending, pid_file_exists, hist>>

\* The child writes to its terminal.
ChildOutput ==
    /\ UNCHANGED <<aside, open_fds>>
    /\ prev_event' = "none"
    /\ spawn_tried' = FALSE
    /\ Running
    /\ child_pid > 0
    /\ proc[child_pid] \in {"forked", "running"}
    /\ pty_fd # NoFd
    /\ ~pty_hup
    /\ pty_in = 0
    /\ pty_in' = 1
    /\ kill_sent' = "none"
    /\ alarm_set' = 0
    /\ UNCHANGED <<supframe, signal_command_pipe, proc, pty_hup, fifo,
                   alarm_pending, pid_file_exists, hist>>

\* The last holder of the slave side closes it: the running program
\* detaches, or a descendant that outlived the program goes away.
ChildClosesPty ==
    /\ UNCHANGED <<aside, open_fds>>
    /\ prev_event' = "none"
    /\ spawn_tried' = FALSE
    /\ Running
    /\ child_pid > 0
    /\ proc[child_pid] \in {"running", "zombie"}
    /\ pty_fd # NoFd
    /\ ~pty_hup
    /\ pty_hup' = TRUE
    /\ kill_sent' = "none"
    /\ alarm_set' = 0
    /\ UNCHANGED <<supframe, signal_command_pipe, proc, pty_in, fifo,
                   alarm_pending, pid_file_exists, hist>>

\* The timer set by alarm() expires: SIGALRM.
AlarmFires ==
    /\ UNCHANGED <<aside, open_fds>>
    /\ prev_event' = prev_event
    /\ spawn_tried' = FALSE
    /\ Running
    /\ alarm_pending
    /\ alarm_pending' = FALSE
    /\ Deliver("A")
    /\ kill_sent' = "none"
    /\ alarm_set' = 0
    /\ UNCHANGED <<supframe, proc, pty_in, pty_hup, fifo, pid_file_exists,
                   hist>>

\* Somebody sends the supervisor one of the signals it handles.
ExtSignal(t) ==
    /\ UNCHANGED <<aside, open_fds>>
    /\ prev_event' = prev_event
    /\ spawn_tried' = FALSE
    /\ Running
    /\ Deliver(t)
    /\ hist' = Tainted
    /\ kill_sent' = "none"
    /\ alarm_set' = 0
    /\ UNCHANGED <<supframe, proc, pty_in, pty_hup, fifo, alarm_pending,
                   pid_file_exists>>

\* send_command() of a second process-monitor (or a shell): open the fifo
\* for writing, write one byte, exit.
send_command(c) ==
    /\ UNCHANGED <<aside, open_fds>>
    /\ prev_event' = "none"
    /\ spawn_tried' = FALSE
    /\ Running
    /\ command_fifo_fd >= 0
    /\ Len(fifo) < MaxFifo
    /\ fifo' = Append(fifo, c)
    /\ hist' = Tainted
    /\ kill_sent' = "none"
    /\ alarm_set' = 0
    /\ UNCHANGED <<supframe, signal_command_pipe, proc, pty_in, pty_hup,
                   alarm_pending, pid_file_exists>>

\* ------------------------------------------------------------------ Next
Supervisor ==
    \/ Startup
    \/ SelectReady
    \/ SelectInterrupted
    \/ SelectTimeout
    \/ PtyPhase
    \/ HandleAlarm
    \/ HandleChild
    \/ HandleHup
    \/ HandleInt
    \/ HandleTerm
    \/ HandleUsr1
    \/ HandleUsr2
    \/ SigDrained
    \/ CmdStart
    \/ CmdStop
    \/ CmdHup
    \/ CmdInt
    \/ CmdExit
    \/ CmdUnknown
    \/ FifoDone
    \/ ShutdownLoop

Environment ==
    \/ \E p \in Pids : ChildExec(p)
    \/ \E p \in Pids : ChildExecFails(p)
    \/ \E p \in Pids : ChildExit(p)
    \/ ChildOutput
    \/ ChildClosesPty
    \/ AlarmFires
    \/ \E t \in Tokens : ExtSignal(t)
    \/ \E c \in Commands : send_command(c)

Next == Supervisor \/ Environment

Spec == Init /\ [][Next]_vars

TypeOK ==
    /\ pc \in {"startup", "select", "pty", "sig", "fifo", "shutloop", "exited"}
    /\ child_pid \in {NoPid} \cup Pids
    /\ pty_fd \in {NoFd, PtyMasterFd}
    /\ Len(signal_command_pipe) <= MaxPipe
    /\ Len(fifo) <= MaxFifo
    /\ hist \in 0..Tainted

\* The foreground-interrupt scenario: a supervisor started without -d whose
\* only operator event is SIGINT (Ctrl-C on its terminal).
InitFg == Init /\ ~is_daemon

NextFgInt ==
    \/ Startup
    \/ SelectReady
    \/ SelectInterrupted
    \/ SelectTimeout
    \/ PtyPhase
    \/ HandleAlarm
    \/ HandleChild
    \/ HandleInt
    \/ SigDrained
    \/ FifoDone
    \/ \E p \in Pids : ChildExec(p)
    \/ \E p \in Pids : ChildExecFails(p)
    \/ \E p \in Pids : ChildExit(p)
    \/ ChildOutput
    \/ ChildClosesPty
    \/ AlarmFires
    \/ ExtSignal("I")

SpecFgInt == InitFg /\ [][NextFgInt]_vars

\* The unattended scenario: no operator signal and no command arrives; the
\* supervisor's loop keeps running and a timer that was set expires.
SupervisorQuiet ==
    \/ Startup
    \/ SelectReady
    \/ SelectInterrupted
    \/ SelectTimeout
    \/ PtyPhase
    \/ HandleAlarm
    \/ HandleChild
    \/ SigDrained
    \/ FifoDone

NextQuiet ==
    \/ SupervisorQuiet
    \/ \E p \in Pids : ChildExec(p)
    \/ \E p \in Pids : ChildExecFails(p)
    \/ \E p \in Pids : ChildExit(p)
    \/ ChildOutput
    \/ ChildClosesPty
    \/ AlarmFires

SpecQuiet ==
    /\ Init
    /\ [][NextQuiet]_vars
    /\ WF_vars(SupervisorQuiet)
    /\ WF_vars(AlarmFires)

\* ---- Setup failures: main() before monitor_child() ----
\* The ways main() and the functions it calls before monitor_child() can
\* fail, by the function that detects the failure.
MainErrors == {"bad_max_wait", "bad_min_wait", "bad_option", "user_twice",
               "unknown_user", "unknown_group", "no_program",
               "program_and_command"}
AddEnvErrors == {"bad_env"}
EnvlistFailures == {"envlist_new_malloc", "envlist_add_malloc",
                    "envlist_add_realloc"}
PipeFailures == {"pipe"}
FifoFailures == {"fifo_stat", "fifo_mkfifo", "fifo_not_a_fifo",
                 "fifo_open_read", "fifo_open_write"}
DaemonFailures == {"daemon_fork", "daemon_setsid"}
PidFileFailures == {"pidfile_fopen", "pidfile_fprintf"}

SetupFailures ==
    MainErrors \cup AddEnvErrors \cup EnvlistFailures \cup PipeFailures
        \cup FifoFailures \cup DaemonFailures \cup PidFileFailures

\* The status a shell reports for a process killed by SIGSEGV (signal 11).
KilledBySegv == 128 + 11

\* Every error exit of option parsing and of the user and group lookup.
main_exit(f) == {1}

add_env_exit(f) == {1}

\* envlist_new() returns NULL when its malloc() fails and add_env() hands
\* that NULL to envlist_add(), which reads envp->env: the build either dies
\* of the access, or reads a null there and takes the "new array" branch,
\* which stores through the same pointer or fails its own malloc().
envlist_new_exit == {KilledBySegv, 2}

envlist_add_exit(f) == {2}

make_signal_command_pipe_exit(f) == {2}

make_command_fifo_exit(f) == {1}

go_daemon_exit(f) == {2}

maybe_create_pid_file_exit(f) == {1}

SetupExit(f) ==
    IF f \in MainErrors THEN main_exit(f)
    ELSE IF f \in AddEnvErrors THEN add_env_exit(f)
    ELSE IF f = "envlist_new_malloc" THEN envlist_new_exit
    ELSE IF f \in EnvlistFailures THEN envlist_add_exit(f)
    ELSE IF f \in PipeFailures THEN make_signal_command_pipe_exit(f)
    ELSE IF f \in FifoFailures THEN make_command_fifo_exit(f)
    ELSE IF f \in DaemonFailures THEN go_daemon_exit(f)
    ELSE maybe_create_pid_file_exit(f)

\* The failure can happen under this command line: the fifo is touched only
\* with -P, the daemon fork only with -d, the pid file only with -p.
SetupCanFail(f) ==
    /\ f \in FifoFailures => command_fifo_name
    /\ f \in DaemonFailures => is_daemon
    /\ f \in PidFileFailures => pid_file

\* main() ends before monitor_child() is reached.  No atexit() handler is
\* registered yet; fprintf() failing leaves the file fopen() has created.
SetupFails ==
    /\ UNCHANGED <<aside, open_fds>>
    /\ pc = "startup"
    /\ \E f \in SetupFailures :
          /\ SetupCanFail(f)
          /\ \E code \in SetupExit(f) : exit_code' = code
          /\ exit_via' = f
          /\ pid_file_exists' = (f = "pidfile_fprintf")
    /\ pc' = "exited"
    /\ spawn_tried' = FALSE
    /\ prev_event' = "none"
    /\ UNCHANGED <<cfgvars, waitcfg, ready, in_shutdown, childvars, policy,
                   child_wait_time, fifofds, signal_command_pipe, fifo,
                   alarm_pending, kill_sent, alarm_set, hist>>

NextSetup == SetupFails \/ NextQuiet

SpecSetup == Init /\ [][NextSetup]_vars

\* ---- Signal bursts: several signals between two reads of the pipe ----
\* The most tokens the signal pipe holds in the burst scenario.
MaxBurst == 2

\* Any process sends the supervisor a signal while up to MaxBurst tokens
\* are still unread: signal_handler() appends its token behind them.
ExtSignalBurst(t) ==
    /\ UNCHANGED <<aside, open_fds>>
    /\ prev_event' = prev_event
    /\ spawn_tried' = FALSE
    /\ Running
    /\ Len(signal_command_pipe) < MaxBurst
    /\ signal_command_pipe' = signal_handler(t)
    /\ hist' = Tainted
    /\ kill_sent' = "none"
    /\ alarm_set' = 0
    /\ UNCHANGED <<supframe, proc, pty_in, pty_hup, fifo, alarm_pending,
                   pid_file_exists>>

\* The supervisor without a command fifo: only signals reach it.
InitBurst == Init /\ ~command_fifo_name

SupervisorBurst ==
    \/ Startup
    \/ SelectReady
    \/ SelectInterrupted
    \/ SelectTimeout
    \/ PtyPhase
    \/ HandleAlarm
    \/ HandleChild
    \/ HandleHup
    \/ HandleInt
    \/ HandleTerm
    \/ HandleUsr1
    \/ HandleUsr2
    \/ SigDrained
    \/ FifoDone

NextBurst ==
    \/ SupervisorBurst
    \/ \E p \in Pids : ChildExec(p)
    \/ \E p \in Pids : ChildExecFails(p)
    \/ \E p \in Pids : ChildExit(p)
    \/ AlarmFires
    \/ \E t \in Tokens : ExtSignalBurst(t)

\* The supervisor process is scheduled: a step it can take is not put off
\* for ever.
SpecBurst == InitBurst /\ [][NextBurst]_vars /\ WF_vars(SupervisorBurst)

\* ---- The pty line reader: read_pty_fd() on the content of the output ----
\* The event-loop specifications above count the child's unread output
\* (pty_in) and leave its content alone; this part follows the content.
\* The line buffer pty_data[PTY_LINE_LEN] is scaled down from 2048 bytes,
\* read()'s buffer from 1024; a run reads at most MaxBytes bytes.
PTY_LINE_LEN == 4
MaxChunk == 2
MaxBytes == 5

\* The bytes that matter to read_pty_fd(): '\r', '\n', '\0', and any other.
Bytes == {"a", "CR", "LF", "NUL"}

Chunks == UNION {[1..n -> Bytes] : n \in 0..MaxChunk}

\* What "%s" prints of a buffer: the bytes before the first NUL.
CString(data) ==
    IF \E i \in 1..Len(data) : data[i] = "NUL"
    THEN SubSeq(data, 1, (CHOOSE i \in 1..Len(data) :
                            data[i] = "NUL" /\ \A j \in 1..(i - 1) : data[j] # "NUL") - 1)
    ELSE data

strip_cr_never(data) == data

\* "If the line ends in \r\n, move the \n back one and re-terminate it."
strip_cr(data) ==
    IF Len(data) >= 2 /\ data[Len(data)] = "LF" /\ data[Len(data) - 1] = "CR"
    THEN Append(SubSeq(data, 1, Len(data) - 2), "LF")
    ELSE data

line_full_late(len) == len = PTY_LINE_LEN + 1

line_full(len) == len = PTY_LINE_LEN - 1

\* The body of read_pty_fd()'s for loop for one byte; st is the line
\* reader's state [buf, log, idx]: pty_data, the records logged so far, the
\* highest index of pty_data[] stored to so far.
PutByte(st, b) ==
    LET data == Append(st.buf, b)
        len == Len(data)
    IN  IF b \in {"LF", "NUL"}
        THEN [buf |-> <<>>,
              log |-> Append(st.log, CString(strip_cr(data))),
              idx |-> Max(st.idx, len)]
        ELSE IF line_full(len)
        THEN [buf |-> <<>>,
              log |-> Append(st.log, Append(CString(data), "LF")),
              idx |-> Max(st.idx, len)]
        ELSE [buf |-> data, log |-> st.log, idx |-> Max(st.idx, len - 1)]

RECURSIVE PutBytes(_, _)
PutBytes(st, chunk) ==
    IF chunk = <<>> THEN st
    ELSE PutBytes(PutByte(st, Head(chunk)), Tail(chunk))

\* read_pty_fd() when its read()s return the bytes of chunk and then
\* EWOULDBLOCK (or, with the child gone, EIO).
read_pty_fd(chunk) ==
    LET st == PutBytes([buf |-> pty_data, log |-> child_log, idx |-> max_index], chunk)
    IN  /\ Len(pty_stream) + Len(chunk) <= MaxBytes
        /\ pty_stream' = pty_stream \o chunk
        /\ pty_data' = st.buf
        /\ child_log' = st.log
        /\ max_index' = st.idx

lineframe == <<is_daemon, pid_file, command_fifo_name, min_child_wait_time,
               max_child_wait_time, pc, ready, in_shutdown, exit_code, exit_via,
               do_restart, do_exit, child_wait_time, command_fifo_fd,
               command_fifo_write_fd, signal_command_pipe, pty_in, pty_hup, fifo,
               alarm_pending, pid_file_exists, kill_sent, alarm_set, spawn_tried,
               prev_event, hist, fifo_eof, open_fds, child_branch, envl>>

\* start_child(), seen from the line reader: a child and its pty appear;
\* pty_data and pty_data_len are not touched.
LineSpawn ==
    /\ child_pid = NoPid
    /\ child_pid' = 1
    /\ pty_fd' = PtyMasterFd
    /\ proc' = [proc EXCEPT ![1] = "running"]
    /\ UNCHANGED <<linevars, lineframe>>

\* wait_in_select() finds the pty readable and calls read_pty_fd().
LineRead ==
    /\ pty_fd > 0
    /\ \E chunk \in Chunks : Len(chunk) > 0 /\ read_pty_fd(chunk)
    /\ stale' = IF Len(child_log') > Len(child_log) THEN 0 ELSE stale
    /\ UNCHANGED <<child_pid, pty_fd, proc, lineframe>>

\* handle_child_signal() for the tracked child: read_pty_fd() takes what is
\* left on the pty, then child_pid is cleared and the pty closed; what
\* pty_data holds stays there.
LineReap ==
    /\ child_pid > 0
    /\ pty_fd > 0
    /\ \E chunk \in Chunks : read_pty_fd(chunk)
    /\ stale' = Len(pty_data')
    /\ child_pid' = NoPid
    /\ pty_fd' = NoFd
    /\ proc' = [proc EXCEPT ![child_pid] = "none"]
    /\ UNCHANGED lineframe

NextLines == LineSpawn \/ LineRead \/ LineReap

SpecLines == Init /\ [][NextLines]_vars

\* ---- envlist.c: the list of strings for the child's environment ----
\* The slots envlist_new() allocates and envlist_add() extends by.
EnvChunk == 10
\* The most strings added to one list.
MaxAdds == 9
EnvStrings == {"A=1", "B"}
\* The heap blocks an array can be in: the one from malloc() and the one
\* realloc() moves it to; 0 is the null pointer.
NullBlock == 0
FirstBlock == 1
MovedBlock == 2

\* A block as malloc() returns it: n slots of unknown content.
Fresh(n) == [i \in 1..n |-> "?"]
\* realloc()'s block: the old content, then slots of unknown content.
Grown(cells, n) == [i \in 1..n |-> IF i <= Len(cells) THEN cells[i] ELSE "?"]

\* envp->env[idx] = val (idx counts from 0).  A store through a pointer to
\* a freed block, or past the end of the block, is undefined: it is recorded
\* and the content of the list's array is no longer known.
Store(e, idx, val) ==
    IF e.env \in e.freed \/ idx >= e.size[e.env]
    THEN [e EXCEPT !.stray = TRUE]
    ELSE [e EXCEPT !.cells[e.env][idx + 1] = val]

\* The last two statements of envlist_add().
Append2(e, v) ==
    [Store(Store(e, e.len, v), e.len + 1, "NULL") EXCEPT
        !.len = e.len + 1, !.added = Append(e.added, v)]

envframe == <<linevars, open_fds, child_branch, supframe, signal_command_pipe,
              proc, pty_in, pty_hup, fifo, alarm_pending, pid_file_exists, hist,
              kill_sent, alarm_set, spawn_tried, prev_event>>

\* envlist_new() when the struct could be allocated: the array is whatever
\* the second malloc() returned, null included.
envlist_new ==
    /\ envl.at = "none"
    /\ \/ envl' = [NoEnvlist EXCEPT !.at = "list", !.maxlen = EnvChunk,
                                    !.env = FirstBlock,
                                    !.size[FirstBlock] = EnvChunk,
                                    !.cells[FirstBlock] = Fresh(EnvChunk)]
       \/ envl' = [NoEnvlist EXCEPT !.at = "list", !.maxlen = EnvChunk,
                                    !.env = NullBlock]
    /\ UNCHANGED envframe

envlist_add(envvar) ==
    /\ envl.at = "list"
    /\ ~envl.stray
    /\ Len(envl.added) < MaxAdds
    /\ \/ /\ envl.env = NullBlock
          /\ \/ envl' = Append2([envl EXCEPT !.maxlen = EnvChunk,
                                             !.env = FirstBlock,
                                             !.size[FirstBlock] = EnvChunk,
                                             !.cells[FirstBlock] = Fresh(EnvChunk)],
                                envvar)
             \/ envl' = [envl EXCEPT !.at = "exited"]
       \/ /\ envl.env # NullBlock
          /\ envl.len = envl.maxlen - 2
          \* realloc() extends the block where it is
          /\ \/ envl' = Append2([envl EXCEPT
                                    !.maxlen = @ + EnvChunk,
                                    !.size[envl.env] = envl.maxlen + EnvChunk,
                                    !.cells[envl.env] =
                                        Grown(@, envl.maxlen + EnvChunk)],
                                envvar)
             \* realloc() moves the block and frees the old one; new_env is
             \* dropped and envp->env still points to the old block
             \/ envl' = Append2([envl EXCEPT
                                    !.maxlen = @ + EnvChunk,
                                    !.size[MovedBlock] = envl.maxlen + EnvChunk,
                                    !.cells[MovedBlock] =
                                        Grown(envl.cells[envl.env],
                                              envl.maxlen + EnvChunk),
                                    !.freed = @ \cup {envl.env}],
                                envvar)
             \/ envl' = [envl EXCEPT !.at = "exited"]
       \/ /\ envl.env # NullBlock
          /\ envl.len # envl.maxlen - 2
          /\ envl' = Append2(envl, envvar)
    /\ UNCHANGED envframe

NextEnv ==
    \/ envlist_new
    \/ \E envvar \in EnvStrings : envlist_add(envvar)

SpecEnv == Init /\ [][NextEnv]_vars

\* ---- A signal arrives while the signal pipe is full ----
\* What the pipe holds before a write to it blocks (64 KiB on Linux), scaled
\* down to the burst bound.
PipeCapacity == MaxBurst

\* signal_handler() with the pipe full: the write end was left in blocking
\* mode, so write() waits for room.  The handler runs on the only thread of
\* the supervisor, which is the pipe's only reader, so the wait never ends.
SignalOnFullPipe(t) ==
    /\ UNCHANGED <<aside, open_fds>>
    /\ prev_event' = prev_event
    /\ spawn_tried' = FALSE
    /\ Running
    /\ Len(signal_command_pipe) = PipeCapacity
    /\ pc' = "blocked"
    /\ hist' = Tainted
    /\ kill_sent' = "none"
    /\ alarm_set' = 0
    /\ UNCHANGED <<cfgvars, waitcfg, ready, in_shutdown, exit_code, exit_via,
                   child_pid, pty_fd, policy, child_wait_time, fifofds,
                   signal_command_pipe, proc, pty_in, pty_hup, fifo,
                   alarm_pending, pid_file_exists>>

NextFull ==
    \/ NextBurst
    \/ \E t \in Tokens : SignalOnFullPipe(t)

SpecFull == InitBurst /\ [][NextFull]_vars

\* ---- The child branch of start_child(), statement by statement ----
\* What system(startup_sh) can report: the hook ran and exited with 0 or
\* not, was killed by a signal, or could not be run at all.
HookResults == {"ok", "nonzero", "SIGINT", "SIGQUIT", "SIGTERM", "error"}
hook_stops(ret) == ret \in {"SIGINT", "SIGQUIT"}

\* The order of the statements of the child branch.
ChildNextStep_uid_first(at) ==
    CASE at = "close" -> "env"
      [] at = "env" -> "setuid"
      [] at = "setuid" -> "setgid"
      [] at = "setgid" -> "chdir"
      [] at = "chdir" -> "hook"
      [] at = "hook" -> "exec"

ChildNextStep(at) ==
    CASE at = "close" -> "env"
      [] at = "env" -> "setgid"
      [] at = "setgid" -> "setuid"
      [] at = "setuid" -> "chdir"
      [] at = "chdir" -> "hook"
      [] at = "hook" -> "exec"

InChild(at) ==
    /\ child_branch.at = at
    /\ child_pid # NoPid
    /\ proc[child_pid] = "forked"

branchquiet == <<linevars, open_fds, envl, supframe, pty_in, fifo,
                 alarm_pending, hist, kill_sent, alarm_set, spawn_tried,
                 prev_event>>

\* The statement succeeded, or there was nothing to do.
ChildProceeds(did) ==
    /\ child_branch' = [child_branch EXCEPT
                           !.at = ChildNextStep(child_branch.at),
                           !.done = @ \o did]
    /\ UNCHANGED <<branchquiet, proc, pid_file_exists, pty_hup,
                   signal_command_pipe>>

\* exit(99) in the child: the inherited exit hook runs, the pty slave closes
\* and the supervisor gets SIGCHLD.
ChildExit99(did, why) ==
    /\ child_branch' = [child_branch EXCEPT !.at = "exited", !.done = @ \o did,
                                            !.failed = why, !.status = 99]
    /\ proc' = [proc EXCEPT ![child_pid] = "zombie"]
    /\ pid_file_exists' = delete_pid_file(pid_file_exists)
    /\ pty_hup' = HangUp(child_pid)
    /\ Deliver("C")
    /\ UNCHANGED branchquiet

\* forkpty() returns 0 in the child, which has a copy of what main() set.
ChildFork ==
    /\ InChild("parent")
    /\ \E c \in ChildConfigs :
          child_branch' = [NotForked EXCEPT !.at = "close", !.cfg = c]
    /\ UNCHANGED <<branchquiet, proc, pid_file_exists, pty_hup,
                   signal_command_pipe>>

ChildCloseFds ==
    /\ InChild("close")
    /\ ChildProceeds(<<"close_pipe_r", "close_pipe_w">>
                     \o (IF command_fifo_fd # NoFd
                         THEN <<"close_fifo_r">> ELSE <<>>)
                     \o (IF command_fifo_write_fd # NoFd
                         THEN <<"close_fifo_w">> ELSE <<>>))

\* setup_env() warns about a variable it cannot set and goes on.
ChildSetupEnv ==
    /\ InChild("env")
    /\ ChildProceeds(<<"env">>)

ChildSetgid ==
    /\ InChild("setgid")
    /\ IF child_branch.cfg.groupname
       THEN \/ ChildProceeds(<<"setgid">>)
            \/ ChildExit99(<<>>, "setgid")
       ELSE ChildProceeds(<<>>)

ChildSetuid ==
    /\ InChild("setuid")
    /\ IF child_branch.cfg.uid # 0
       THEN \/ ChildProceeds(<<"setuid">>)
            \/ ChildExit99(<<>>, "setuid")
       ELSE ChildProceeds(<<>>)

ChildChdir ==
    /\ InChild("chdir")
    /\ IF child_branch.cfg.dir
       THEN \/ ChildProceeds(<<"chdir">>)
            \/ ChildExit99(<<>>, "chdir")
       ELSE ChildProceeds(<<>>)

ChildHook ==
    /\ InChild("hook")
    /\ IF child_branch.cfg.startup_sh
       THEN \E ret \in HookResults :
               IF hook_stops(ret)
               THEN ChildExit99(<<"hook">>, "hook")
               ELSE ChildProceeds(<<"hook">>)
       ELSE ChildProceeds(<<>>)

ChildExecv ==
    /\ InChild("exec")
    /\ \/ /\ child_branch' = [child_branch EXCEPT !.at = "target",
                                                  !.done = @ \o <<"exec">>]
          /\ proc' = [proc EXCEPT ![child_pid] = "running"]
          /\ UNCHANGED <<branchquiet, pid_file_exists, pty_hup,
                         signal_command_pipe>>
       \/ ChildExit99(<<>>, "exec")

NextChild ==
    \/ Startup
    \/ ChildFork
    \/ ChildCloseFds
    \/ ChildSetupEnv
    \/ ChildSetgid
    \/ ChildSetuid
    \/ ChildChdir
    \/ ChildHook
    \/ ChildExecv

SpecChild == Init /\ [][NextChild]_vars

\* ---- Descriptor recovery: read() on the command fifo fails ----
\* The most read errors of one run.
MaxReadErrors == 2

\* read_command_fifo_fd() when read() returns -1 with an errno other than
\* EWOULDBLOCK: the error is logged and make_command_fifo() is called, with
\* both old descriptors still open; then it returns to the loop.
FifoReadError ==
    /\ UNCHANGED aside
    /\ prev_event' = "none"
    /\ spawn_tried' = FALSE
    /\ pc = "fifo"
    /\ "fifo" \in ready
    /\ command_fifo_fd >= 0
    /\ open_fds["fifo_r"] <= MaxReadErrors
    /\ command_fifo_fd' = make_command_fifo_read
    /\ command_fifo_write_fd' = make_command_fifo_write
    /\ open_fds' = make_command_fifo_opens(open_fds)
    /\ fifo_eof' = fifo_eof
    /\ ready' = {}
    /\ pc' = AfterWait
    /\ kill_sent' = "none"
    /\ alarm_set' = 0
    /\ UNCHANGED <<cfgvars, waitcfg, in_shutdown, exitvars, childvars, policy,
                   child_wait_time, signal_command_pipe, fifo, alarm_pending, hist>>

NextFds == NextQuiet \/ FifoReadError

SpecFds == Init /\ [][NextFds]_vars

\* ================================================================ claims
\* Steps of the model as seen from outside: the handler of token t runs, the
\* command byte c is acted on, the tracked child is reaped, a child is forked.
SigStep(t) ==
    /\ pc = "sig"
    /\ "sig" \in ready
    /\ signal_command_pipe # <<>>
    /\ Head(signal_command_pipe) = t
    /\ signal_command_pipe' = Tail(signal_command_pipe)

CmdStep(c) ==
    /\ pc = "fifo"
    /\ "fifo" \in ready
    /\ command_fifo_fd >= 0
    /\ fifo # <<>>
    /\ Head(fifo) = c
    /\ fifo' = Tail(fifo)

ReapStep == SigStep("C") /\ child_pid # NoPid /\ child_pid' = NoPid
SpawnStep == \E p \in Pids : proc[p] = "none" /\ proc'[p] = "forked"
ResumeStep == SigStep("2") \/ CmdStep("+")
Children == {p \in Pids : proc[p] # "none"}

\* ---- C1
\* C1: at most one spawned-and-not-yet-reaped child exists and it is the
\* tracked one; a child is forked only when child_pid is absent; child_pid
\* goes from present to absent only when the tracked child is reaped (a
\* failed fork happens only when it is already absent).
C1_OneChild ==
    /\ Cardinality(Children) <= 1
    /\ \A p \in Children : child_pid = p
    /\ child_pid # NoPid => child_pid \in Children

C1_AtMostOneChild ==
    /\ []C1_OneChild
    /\ [][ /\ SpawnStep => child_pid = NoPid
           /\ (child_pid # NoPid /\ child_pid' = NoPid) =>
                  /\ proc[child_pid] = "zombie"
                  /\ proc'[child_pid] = "none"
         ]_vars

\* A second incarnation of the child is running after the first was reaped.
C1_Witness ==
    /\ child_pid # NoPid
    /\ hist \in 1..MaxExits
    /\ proc[child_pid] = "running"

\* ---- C2
\* C2 (as stated): in every state of the event loop pty_fd is present exactly
\* when child_pid is present.
C2_PtyIffChild == Running => (pty_fd # NoFd <=> child_pid # NoPid)

\* C2 (amended): pty_fd is present only when a child is tracked and every
\* successful spawn sets both; pty_fd becomes absent while the child stays
\* tracked only when a pty read met the hang-up (end-of-file or EIO).
C2_PtyOnlyWithChild ==
    /\ [](Running => (pty_fd # NoFd => child_pid # NoPid))
    /\ [][ /\ SpawnStep => (child_pid' # NoPid /\ pty_fd' # NoFd)
           /\ (pty_fd # NoFd /\ pty_fd' = NoFd /\ child_pid' # NoPid) =>
                  (pty_hup /\ child_pid' = child_pid) ]_vars

\* The child is tracked and its pty has already been closed by a pty read.
C2_Witness == Running /\ child_pid # NoPid /\ pty_fd = NoFd

\* ---- C3
\* C3: in every state after startup,
\* min_wait <= wait_time <= max(min_wait, max_wait).
C3_WaitTimeBounds ==
    pc # "startup" =>
        /\ min_child_wait_time <= child_wait_time
        /\ child_wait_time <= Max(min_child_wait_time, max_child_wait_time)

\* ---- C4
\* C4: after startup no step between two child deaths (no reap, no resume by
\* '+' or Usr2) decreases wait_time.
C4_NeverDecreases ==
    [][ (pc # "startup" /\ ~ResumeStep /\ ~ReapStep) =>
            child_wait_time' >= child_wait_time ]_vars

C6_BackoffSchedule ==
    /\ [][ (ReapStep /\ hist \in 0..(MaxExits - 2)) =>
               alarm_set' = Max(1, Min(min_child_wait_time * 2^hist,
                                       max_child_wait_time)) ]_vars
    /\ []( (hist \in 1..MaxExits /\ pc # "exited" /\ child_pid = NoPid
               /\ signal_command_pipe = <<>>) => (alarm_pending /\ do_restart) )
    /\ [][ (hist # Tainted /\ hist' # Tainted /\ SigStep("A")) =>
               (child_pid = NoPid /\ child_pid' # NoPid) ]_vars

\* Under -m 2 -M 8 the fourth exit in a row arms the saturated 8 seconds.
C6_Witness == hist = 4 /\ alarm_set = 8 /\ min_child_wait_time = 2

\* ---- C7
\* C7: once the supervisor has terminated, a pid file that was created is
\* gone, whichever handler called exit().
C7_PidFileUnlinked == (pc = "exited" /\ pid_file) => ~pid_file_exists

\* Orderly shutdown has ended a supervisor that had written a pid file.
C7_Witness ==
    /\ pc = "exited"
    /\ pid_file
    /\ exit_via = "x"
    /\ in_shutdown
    /\ ~pid_file_exists

\* ---- C8
\* C8: while the supervisor runs with a command fifo it holds a write
\* descriptor on it, and no read of the fifo has returned end-of-stream.
C8_FifoNeverEof ==
    (Running /\ command_fifo_name) =>
        /\ command_fifo_fd >= 0
        /\ command_fifo_write_fd >= 0
        /\ ~fifo_eof

\* The supervisor is about to read the fifo after the external writer has
\* left and its byte has been consumed.
C8_Witness ==
    /\ pc = "fifo"
    /\ "fifo" \in ready
    /\ fifo = <<>>
    /\ command_fifo_fd >= 0
    /\ hist = Tainted

\* ---- C9
\* C9: when exit_when_child_dies is latched, the Child handler that reaps
\* the tracked child terminates the supervisor with code 0, the pid file
\* unlinked, no alarm armed and no child spawned.
C9_LatchedReapExits ==
    [][ (ReapStep /\ do_exit) =>
            /\ pc' = "exited"
            /\ exit_code' = 0
            /\ pid_file => ~pid_file_exists'
            /\ alarm_set' = 0
            /\ alarm_pending' = alarm_pending
            /\ ~SpawnStep
            /\ Children' = {} ]_vars

\* The Child handler has ended a supervisor that had written a pid file.
C9_Witness ==
    /\ pc = "exited"
    /\ exit_via = "child"
    /\ do_exit
    /\ pid_file

\* ---- C10
\* C10 (as stated): in foreground an Int event with a running child forwards
\* INT, and the reap of that child ends the supervisor with exit code 1.
C10_FgIntExitsOne ==
    [][ /\ (SigStep("I") /\ child_pid > 0) => kill_sent' = "INT"
        /\ (ReapStep /\ do_exit) => (pc' = "exited" /\ exit_code' = 1) ]_vars

\* C10 (amended): in foreground an Int event with a running child forwards
\* INT and latches {monitor=false, exit_when_child_dies=true}; the reap of
\* that child ends the supervisor with exit code 0.
C10_FgIntExitsZero ==
    [][ /\ (SigStep("I") /\ child_pid > 0) =>
               (kill_sent' = "INT" /\ do_exit' /\ ~do_restart' /\ pc' = "sig")
        /\ (ReapStep /\ do_exit) => (pc' = "exited" /\ exit_code' = 0) ]_vars

\* Ctrl-C was forwarded, the child died of it, the supervisor has exited.
C10_Witness ==
    /\ pc = "exited"
    /\ exit_via = "child"
    /\ exit_code = 0
    /\ ~is_daemon
    /\ ~do_restart

\* ---- C11
\* The tracked child has not exited yet.
ChildAlive == child_pid > 0 /\ proc[child_pid] \in {"forked", "running"}

\* C11: command 'x' with a live child latches {monitor=false, exit=true} and
\* sends TERM; from then on the supervisor ends only with exit code 0, and if
\* the child is still alive when it ends, KILL is sent in that step; with no
\* child 'x' exits 0 at once.
C11_OrderlyShutdown ==
    /\ []( (in_shutdown /\ pc = "exited") => exit_code = 0 )
    /\ [][ /\ (CmdStep("x") /\ child_pid > 0) =>
                  (do_exit' /\ ~do_restart' /\ kill_sent' = "TERM" /\ pc' # "exited")
           /\ (CmdStep("x") /\ child_pid <= 0) =>
                  (pc' = "exited" /\ exit_code' = 0)
           /\ (in_shutdown /\ pc # "exited" /\ pc' = "exited" /\ ChildAlive) =>
                  kill_sent' = "KILL"
         ]_vars

\* ---- C12
\* C12: processing 'x' with a live child sets wait_time to 5, and it stays 5
\* for every readiness wait of the shutdown.
C12_ShutdownWaitIsFive ==
    /\ []( (in_shutdown /\ pc = "select") => child_wait_time = ShutdownWait )
    /\ [][ (CmdStep("x") /\ child_pid > 0) => child_wait_time' = ShutdownWait ]_vars

\* ---- C13
\* start_child() is called: by main at startup, by the Alarm handler and by
\* start_monitoring when monitoring is on and no child is tracked.
AttemptStep ==
    \/ pc = "startup" /\ pc' # "startup"
    \/ SigStep("A") /\ do_restart /\ child_pid <= 0
    \/ ResumeStep /\ child_pid <= 0

\* start_child() has failed and nothing has been spawned since (spawn_tried
\* marks the step that calls start_child()).
ForkFailed == Running /\ child_pid = NoPid /\ hist = Tainted /\ child_wait_time = ForkFailWait

\* C13: with no operator signal or command, a failed fork (at startup or at
\* an Alarm-driven respawn) is eventually followed by another spawn attempt.
C13_ForkFailureRetried == []((ForkFailed /\ ~spawn_tried) => <>spawn_tried)

\* ---- C14
\* select() can only return by its timeout: nothing is readable, no timer
\* is set, no child is left that could produce an event.
OnlyTimeoutWakes ==
    /\ pc = "select"
    /\ Readable = {}
    /\ ~alarm_pending
    /\ Children = {}

\* C14: when the readiness wait can end only by its timeout, with monitoring
\* on and no child tracked, a spawn attempt follows.
C14_TimeoutRespawns ==
    [](( OnlyTimeoutWakes /\ do_restart /\ ~do_exit /\ child_pid = NoPid
           /\ ~spawn_tried ) => <>spawn_tried)

\* ---- C15
StopStep == SigStep("1") \/ CmdStep("-")

\* C15: stop (Usr1 or '-') sets monitor to false and changes nothing else:
\* child_pid, pty_fd, wait_time, exit_when_child_dies, the pending alarm and
\* the children are as before, no signal is sent and alarm() is not called;
\* a stop when monitor is already false changes none of these fields.
C15_StopOnlyClearsMonitor ==
    [][ StopStep =>
          /\ ~do_restart'
          /\ UNCHANGED <<child_pid, pty_fd, child_wait_time, do_exit,
                         alarm_pending, proc, waitcfg>>
          /\ kill_sent' = "none"
          /\ alarm_set' = 0
          /\ pc' # "exited"
          /\ ~do_restart => UNCHANGED <<child_pid, pty_fd, policy, child_wait_time,
                                        alarm_pending>>
      ]_vars

\* Usr1 has just been handled while a child runs and the back-off has grown:
\* the child is alive and still tracked, monitor is false, nothing latched.
C15_Witness ==
    /\ prev_event = "1"
    /\ pc = "sig"
    /\ signal_command_pipe = <<>>
    /\ ChildAlive
    /\ pty_fd # NoFd
    /\ ~do_restart
    /\ ~do_exit
    /\ child_wait_time > min_child_wait_time

\* ---- C16
\* C16 (as stated): start ('+' or Usr2) with monitor true and a child tracked
\* leaves child_pid, pty_fd, restart_policy and wait_time unchanged.
C16_StartIsNoOp ==
    [][ (ResumeStep /\ do_restart /\ child_pid > 0) =>
            UNCHANGED <<child_pid, pty_fd, policy, child_wait_time>> ]_vars

\* C16 (amended): start with monitor true and a child tracked leaves
\* child_pid, pty_fd, restart_policy and the children unchanged, calls
\* neither start_child() nor kill() nor alarm(), and sets wait_time to
\* min_wait.
C16_StartOnlyResetsWait ==
    [][ (ResumeStep /\ do_restart /\ child_pid > 0) =>
            /\ UNCHANGED <<child_pid, pty_fd, policy, proc, alarm_pending>>
            /\ child_wait_time' = min_child_wait_time
            /\ ~spawn_tried'
            /\ kill_sent' = "none"
            /\ alarm_set' = 0
            /\ pc' # "exited" ]_vars

\* Usr2 has just been handled with a running child it did not spawn, after
\* a reap with monitoring on had doubled the wait and armed the alarm that
\* is still pending: the wait is back at min_wait.
C16_Witness ==
    /\ prev_event = "2"
    /\ pc = "sig"
    /\ signal_command_pipe = <<>>
    /\ ~spawn_tried
    /\ ChildAlive
    /\ do_restart
    /\ ~do_exit
    /\ alarm_pending
    /\ child_wait_time = min_child_wait_time
    /\ min_child_wait_time < max_child_wait_time

\* ---- C17
\* No child is forked and start_child() is not called in this step.
NoSpawn == ~spawn_tried' /\ ~SpawnStep /\ child_pid' \in {child_pid, NoPid}

\* C17 (as stated): a stop leaves the child running; while monitor is false
\* no step other than a start spawns; a start sets monitor to true and
\* wait_time to min_wait and, when no child is tracked, spawns one in the
\* same step.
C17_StartSpawns ==
    [][ /\ StopStep => (proc' = proc /\ kill_sent' = "none")
        /\ (~do_restart /\ ~ResumeStep) => (NoSpawn /\ ~do_restart')
        /\ ResumeStep =>
              /\ do_restart'
              /\ child_wait_time' = min_child_wait_time
              /\ child_pid <= 0 => (SpawnStep /\ child_pid' > 0)
      ]_vars

\* C17 (amended): as above, but the start calls start_child() when no child
\* is tracked: if the fork succeeds a child is tracked and wait_time is
\* min_wait, if it fails no child is tracked and wait_time is 60; with a
\* child tracked wait_time is min_wait and nothing is spawned.
C17_StartTriesToSpawn ==
    [][ /\ StopStep => (proc' = proc /\ kill_sent' = "none")
        /\ (~do_restart /\ ~ResumeStep) => (NoSpawn /\ ~do_restart')
        /\ ResumeStep =>
              /\ do_restart'
              /\ IF child_pid <= 0
                 THEN /\ spawn_tried'
                      /\ \/ /\ SpawnStep
                            /\ child_pid' > 0
                            /\ child_wait_time' = min_child_wait_time
                         \/ /\ proc' = proc
                            /\ child_pid' = NoPid
                            /\ child_wait_time' = ForkFailWait
                 ELSE /\ NoSpawn
                      /\ child_pid' = child_pid
                      /\ child_wait_time' = min_child_wait_time
      ]_vars

\* Monitoring was stopped (only a stop leaves monitor false with nothing
\* latched), the Child handler has run, no child is left and no alarm is
\* pending to respawn one, the wait is the double of min_wait left by an
\* earlier exit, and the loop is about to handle the Usr2 that will reset it
\* and spawn.
C17_Witness ==
    /\ pc = "sig"
    /\ "sig" \in ready
    /\ signal_command_pipe = <<"2">>
    /\ prev_event = "C"
    /\ ~do_restart
    /\ ~do_exit
    /\ child_pid = NoPid
    /\ Children = {}
    /\ ~alarm_pending
    /\ min_child_wait_time > 0
    /\ child_wait_time = 2 * min_child_wait_time

\* ---- C18
\* C18: for every token, when its handler runs again right after it ran
\* (only signal deliveries in between), does not end the supervisor and no
\* fork succeeds that failed the first time, the second run leaves
\* child_pid, pty_fd, restart_policy, wait_time and the pending alarm as the
\* first run left them.
C18_HandlersIdempotent ==
    [][ \A t \in Tokens :
          (SigStep(t) /\ prev_event = t /\ pc' # "exited" /\ ~SpawnStep) =>
              UNCHANGED <<child_pid, pty_fd, policy, child_wait_time, alarm_pending>>
      ]_vars

\* The Child handler has reaped the child, doubled the wait and armed the
\* alarm; a second SIGCHLD token is at the head of the pipe and is about to
\* be handled.
C18_Witness ==
    /\ pc = "sig"
    /\ "sig" \in ready
    /\ prev_event = "C"
    /\ signal_command_pipe = <<"C">>
    /\ child_pid = NoPid
    /\ alarm_pending
    /\ do_restart
    /\ hist = Tainted
    /\ child_wait_time = 2 * min_child_wait_time
    /\ min_child_wait_time > 0

\* ---- C19
\* C19: the Hup handler, as a daemon, forwards HUP to the child if there is
\* one, leaves restart_policy alone and keeps running; in foreground with a
\* child it forwards HUP and latches {monitor=false, exit=true}; in
\* foreground with no child it exits in that step.
C19_HupByMode ==
    [][ SigStep("H") =>
          IF is_daemon
          THEN /\ kill_sent' = IF child_pid > 0 THEN "HUP" ELSE "none"
               /\ UNCHANGED policy
               /\ pc' # "exited"
          ELSE IF child_pid > 0
               THEN /\ kill_sent' = "HUP"
                    /\ ~do_restart'
                    /\ do_exit'
                    /\ pc' # "exited"
               ELSE /\ pc' = "exited"
                    /\ kill_sent' = "none"
      ]_vars

\* In foreground SIGHUP has just been forwarded to the running child and
\* {monitor=false, exit=true} is latched.
C19_Witness ==
    /\ prev_event = "H"
    /\ pc = "sig"
    /\ signal_command_pipe = <<>>
    /\ ~is_daemon
    /\ ChildAlive
    /\ kill_sent = "HUP"
    /\ ~do_restart
    /\ do_exit

\* ---- C20
\* C20: the Int handler with no child exits in foreground and changes
\* nothing as a daemon; with a child it forwards INT, latches
\* {monitor=false, exit=true} in foreground and leaves restart_policy as it
\* was as a daemon.
C20_IntByMode ==
    [][ SigStep("I") =>
          IF child_pid <= 0
          THEN IF is_daemon
               THEN /\ pc' # "exited"
                    /\ kill_sent' = "none"
                    /\ UNCHANGED <<child_pid, pty_fd, policy, child_wait_time,
                                   alarm_pending, proc>>
               ELSE pc' = "exited"
          ELSE /\ kill_sent' = "INT"
               /\ pc' # "exited"
               /\ IF is_daemon
                  THEN UNCHANGED policy
                  ELSE ~do_restart' /\ do_exit'
      ]_vars

\* As a daemon SIGINT has just been forwarded to the running child and the
\* supervisor still monitors with nothing latched.
C20_Witness ==
    /\ prev_event = "I"
    /\ pc = "sig"
    /\ signal_command_pipe = <<>>
    /\ is_daemon
    /\ ChildAlive
    /\ kill_sent = "INT"
    /\ do_restart
    /\ ~do_exit

C22_AlarmHandler ==
    [][ SigStep("A") =>
          /\ (do_restart /\ child_pid <= 0) => spawn_tried'
          /\ ~(do_restart /\ child_pid <= 0) => NoSpawn
          /\ do_exit => pc' = "exited"
          /\ ~do_exit => pc' # "exited"
      ]_vars

\* The Alarm handler has ended a latched supervisor whose child is alive.
C22_Witness ==
    /\ pc = "exited"
    /\ exit_via = "alarm"
    /\ do_exit
    /\ ChildAlive

\* ---- C23
\* C23 (as stated): after every Child event has been handled, child_pid is
\* absent or a child has just been spawned.
C23_AbsentOrSpawned ==
    [][ SigStep("C") => (child_pid' = NoPid \/ SpawnStep \/ spawn_tried') ]_vars

\* C23 (amended): the Child handler never spawns; it leaves child_pid as it
\* was unless the tracked child has exited, in which case it clears it, and
\* with monitoring on and no latch it leaves the respawn to the alarm it
\* arms.
C23_ChildEventNeverSpawns ==
    [][ SigStep("C") =>
          /\ ~spawn_tried'
          /\ ~SpawnStep
          /\ child_pid' \in {child_pid, NoPid}
          /\ child_pid' # child_pid <=> (child_pid > 0 /\ proc[child_pid] = "zombie")
          /\ (child_pid' # child_pid /\ do_restart /\ ~do_exit) =>
                 (alarm_set' >= 1 /\ alarm_pending' /\ pc' # "exited")
      ]_vars

\* A Child token has just been handled and the child, still alive, is still
\* tracked.
C23_Witness ==
    /\ prev_event = "C"
    /\ pc = "sig"
    /\ signal_command_pipe = <<>>
    /\ ~spawn_tried
    /\ ChildAlive
    /\ pty_fd # NoFd

\* ---- C24
\* C24: a Child event whose waitpid() returns no pid or a pid other than the
\* tracked one leaves child_pid, the restart policy, wait_time and the
\* pending alarm unchanged, reaps nothing and does not exit; one whose
\* waitpid() returns the tracked pid clears child_pid and closes and clears
\* pty_fd.
C24_ReapOnlyTracked ==
    [][ SigStep("C") =>
          IF child_pid > 0 /\ proc[child_pid] = "zombie"
          THEN /\ child_pid' = NoPid
               /\ pty_fd' = NoFd
               /\ proc'[child_pid] = "none"
          ELSE /\ UNCHANGED <<child_pid, policy, child_wait_time, alarm_pending,
                              waitcfg, proc>>
               /\ alarm_set' = 0
               /\ kill_sent' = "none"
               /\ pc' # "exited"
      ]_vars

\* A Child token has been ignored under a latched exit with the child alive:
\* the latch, the child and the supervisor are all still there.
C24_Witness ==
    /\ prev_event = "C"
    /\ pc = "sig"
    /\ signal_command_pipe = <<>>
    /\ ChildAlive
    /\ do_exit
    /\ ~do_restart

\* ---- C25
\* This step is an operator's request to leave: a Hup, Int or Term token or
\* the 'x' command is handled, or the shutdown that 'x' began goes on.
OperatorRequest ==
    \/ SigStep("H")
    \/ SigStep("I")
    \/ SigStep("T")
    \/ CmdStep("x")
    \/ in_shutdown

\* C25: after startup the supervisor terminates only in a step that handles
\* an operator request or that takes a latched exit-on-death path (the reap
\* or the Alarm under the latch), and the latch itself is set only by an
\* operator request; so no run of child deaths, failed execs or forks, pty
\* errors, unknown bytes, Usr1/Usr2 and '+', '-', 'h', 'i' commands ends it.
C25_ExitsOnlyOnRequest ==
    [][ pc # "startup" =>
          /\ (pc # "exited" /\ pc' = "exited") =>
                 \/ OperatorRequest
                 \/ do_exit /\ (SigStep("A") \/ ReapStep)
          /\ (~do_exit /\ do_exit') => OperatorRequest
      ]_vars

\* ---- C26
\* C26: the commands 'h' and 'i' send HUP (resp. INT) to the tracked child,
\* if any, and in daemon and foreground mode alike leave the restart policy,
\* wait_time and child_pid unchanged and the supervisor running.
C26_CommandsOnlyForward ==
    [][ /\ CmdStep("h") =>
              /\ kill_sent' = IF child_pid > 0 THEN "HUP" ELSE "none"
              /\ UNCHANGED <<policy, child_wait_time, child_pid>>
              /\ pc' # "exited"
        /\ CmdStep("i") =>
              /\ kill_sent' = IF child_pid > 0 THEN "INT" ELSE "none"
              /\ UNCHANGED <<policy, child_wait_time, child_pid>>
              /\ pc' # "exited"
      ]_vars

\* ---- C27
\* C27: a setup that fails on a system call (creating the signal pipe,
\* creating or opening the command fifo, the daemon fork, setsid) ends with
\* exit code 2, one that fails on an allocation (the env lists included)
\* with exit code 5, one that fails on a configuration error (bad option
\* value, unknown user or group, fifo path that is no fifo) with exit code 1.
C27_SetupExitCodes ==
    pc = "exited" =>
        /\ exit_via \in (PipeFailures \cup DaemonFailures \cup
                         (FifoFailures \ {"fifo_not_a_fifo"})) => exit_code = 2
        /\ exit_via \in EnvlistFailures => exit_code = 5
        /\ exit_via \in (MainErrors \cup AddEnvErrors \cup {"fifo_not_a_fifo"}) =>
               exit_code = 1

\* ---- C28
\* C28: exit_when_child_dies is latched: once it is set, no step of the
\* supervisor or of its environment, Usr2 and the '+' command included,
\* clears it, up to and including the step that exits.
C28_ExitLatchStays == [][ do_exit => do_exit' ]_vars

\* Usr2 has just been handled under the latch: monitoring is on again, the
\* child is alive, and the latch is still set.
C28_Witness ==
    /\ prev_event = "2"
    /\ pc = "sig"
    /\ signal_command_pipe = <<>>
    /\ do_exit
    /\ do_restart
    /\ ChildAlive

\* ---- C29
\* C29: within one wake-up of select() the pty is read first, then the
\* signal pipe is drained, then the command fifo is read: each phase is
\* entered only from the one before it, tokens are handled only in the
\* second and commands only in the third, and a readable pty has been read
\* to the end before the first token of the wake-up (a Child token that
\* closes the pty included) is handled.
C29_DispatchOrder ==
    /\ []( /\ pc \in {"sig", "fifo"} => "pty" \notin ready
           /\ pc = "fifo" => "sig" \notin ready )
    /\ [][ /\ (pc = "select" /\ pc' # pc) => pc' \in {"pty", AfterWait}
           /\ (pc = "pty" /\ pc' # pc) => pc' = "sig"
           /\ (pc = "sig" /\ pc' # pc) => pc' \in {"fifo", "exited"}
           /\ (pc = "fifo" /\ pc' # pc) => pc' \in {"select", "shutloop", "exited"}
           /\ (pc' = "sig" /\ pc # "sig") => pc = "pty"
           /\ (pc' = "fifo" /\ pc # "fifo") => pc = "sig"
           /\ (\E t \in Tokens : SigStep(t)) => pc = "sig"
           /\ (\E c \in Commands : CmdStep(c)) => pc = "fifo"
           /\ (pc = "pty" /\ pc' # pc /\ "pty" \in ready /\ pty_fd > 0) => pty_in' = 0
           /\ (ReapStep /\ pty_fd # NoFd) => "pty" \notin ready
         ]_vars

\* select() has returned with all three sources readable: output of the
\* exited child is on the pty, its Child token is in the pipe and a command
\* is in the fifo; the pty is about to be read.
C29_Witness ==
    /\ pc = "pty"
    /\ ready = {"pty", "sig", "fifo"}
    /\ pty_in > 0
    /\ pty_fd # NoFd
    /\ signal_command_pipe = <<"C">>
    /\ fifo # <<>>
    /\ child_pid > 0
    /\ proc[child_pid] = "zombie"

\* ---- C30
\* C30: a signal delivered at any point changes nothing of the supervisor
\* but the signal pipe, to which it appends one token; the pipe changes in
\* no other way than by the loop taking its first token and running that
\* token's handler; the drain goes on after each handler that returns and
\* ends only when the pipe is empty; and a token at the head of the pipe is
\* eventually handled unless the supervisor exits first.
C30_TokensInOrder ==
    /\ [][ /\ (\E t \in Tokens : signal_command_pipe' = Append(signal_command_pipe, t)) =>
                  UNCHANGED <<pc, ready, child_pid, pty_fd, policy, child_wait_time,
                              waitcfg, fifofds, in_shutdown, exit_code, exit_via,
                              cfgvars>>
           /\ signal_command_pipe' # signal_command_pipe =>
                  \/ \E t \in Tokens :
                        signal_command_pipe' = Append(signal_command_pipe, t)
                  \/ /\ signal_command_pipe # <<>>
                     /\ signal_command_pipe' = Tail(signal_command_pipe)
                     /\ pc = "sig"
                     /\ prev_event' = Head(signal_command_pipe)
           /\ (\E t \in Tokens : SigStep(t)) => pc' \in {"sig", "exited"}
           /\ (pc = "sig" /\ "sig" \in ready /\ pc' = "fifo") =>
                  signal_command_pipe = <<>>
         ]_vars
    /\ \A t \in Tokens :
          ( signal_command_pipe # <<>> /\ Head(signal_command_pipe) = t
              /\ prev_event # t )
            ~> (prev_event = t \/ pc = "exited")

\* Usr1 has just been handled and the Usr2 token that was written behind it
\* while it waited in the pipe is the next to be read.
C30_Witness ==
    /\ prev_event = "1"
    /\ pc = "sig"
    /\ signal_command_pipe = <<"2">>
    /\ ~do_restart
    /\ ChildAlive

\* ---- C31
\* C31: when the tracked child has been reaped, every byte read from its pty
\* has been handed to logchild() and the line buffer is empty: no byte of a
\* reaped child waits in pty_data, where the output of the next child would
\* be appended to it.
C31_FlushedOnExit == stale = 0 /\ (child_pid = NoPid => pty_data = <<>>)

\* ---- C32
\* The stream read so far holds no line terminator.
NoTerminator == \A i \in 1..Len(pty_stream) : pty_stream[i] \notin {"LF", "NUL"}

\* The k-th run of PTY_LINE_LEN - 1 bytes of the stream.
FullRun(k) == SubSeq(pty_stream, (k - 1) * (PTY_LINE_LEN - 1) + 1, k * (PTY_LINE_LEN - 1))

\* C32: for every sequence of bytes read from the pty the line buffer never
\* holds more than PTY_LINE_LEN - 1 bytes, no store to pty_data[] (the NUL
\* terminator included) goes beyond index PTY_LINE_LEN - 1, and whenever
\* PTY_LINE_LEN - 1 bytes have come without a terminator they are handed to
\* logchild() as one line and the buffer starts again empty.
C32_LineBufferBounded ==
    /\ Len(pty_data) < PTY_LINE_LEN - 1
    /\ max_index <= PTY_LINE_LEN - 1
    /\ NoTerminator =>
          /\ Len(child_log) = Len(pty_stream) \div (PTY_LINE_LEN - 1)
          /\ \A k \in 1..Len(child_log) : child_log[k] = Append(FullRun(k), "LF")
          /\ Len(pty_data) = Len(pty_stream) % (PTY_LINE_LEN - 1)

\* PTY_LINE_LEN - 1 bytes without a terminator have filled the buffer, have
\* been logged as one line, and one more byte has started the next line.
C32_Witness ==
    /\ NoTerminator
    /\ Len(pty_stream) = PTY_LINE_LEN
    /\ Len(child_log) = 1
    /\ Len(child_log[1]) = PTY_LINE_LEN
    /\ max_index = PTY_LINE_LEN - 1
    /\ Len(pty_data) = 1

\* ---- C33
\* The place of the first line terminator in str (0 if there is none).
FirstTerminator(str) ==
    IF \E i \in 1..Len(str) : str[i] \in {"LF", "NUL"}
    THEN CHOOSE i \in 1..Len(str) :
             str[i] \in {"LF", "NUL"} /\ \A j \in 1..(i - 1) : str[j] \notin {"LF", "NUL"}
    ELSE 0

\* The output lines of the child, each with its terminator, in the stream.
RECURSIVE OutputLines(_)
OutputLines(str) ==
    IF FirstTerminator(str) = 0 THEN <<>>
    ELSE <<SubSeq(str, 1, FirstTerminator(str))>>
             \o OutputLines(SubSeq(str, FirstTerminator(str) + 1, Len(str)))

\* The record a line stands for: "\r\n" at its end becomes "\n", a line
\* ended by "\n" alone is unchanged, a NUL ends the text before it.
LineRecord(line) ==
    IF line[Len(line)] = "NUL" THEN SubSeq(line, 1, Len(line) - 1)
    ELSE IF Len(line) >= 2 /\ line[Len(line) - 1] = "CR"
         THEN Append(SubSeq(line, 1, Len(line) - 2), "LF")
         ELSE line

\* The records of a line cut by the capacity rule: every PTY_LINE_LEN - 1
\* bytes are logged as they are, with "\n" appended, and the rest goes on
\* as a line of its own.
RECURSIVE CutLineRecords(_)
CutLineRecords(line) ==
    IF Len(line) <= PTY_LINE_LEN - 1 THEN <<LineRecord(line)>>
    ELSE <<Append(SubSeq(line, 1, PTY_LINE_LEN - 1), "LF")>>
             \o CutLineRecords(SubSeq(line, PTY_LINE_LEN, Len(line)))

RECURSIVE Flatten(_)
Flatten(seqs) == IF seqs = <<>> THEN <<>> ELSE Head(seqs) \o Flatten(Tail(seqs))

\* The records of the lines that are complete in the stream.
LineRecords(str) ==
    Flatten([i \in 1..Len(OutputLines(str)) |-> CutLineRecords(OutputLines(str)[i])])

\* What follows the last terminator of the stream: the line still open.
OpenLine(str) ==
    IF FirstTerminator(str) = 0 THEN str
    ELSE SubSeq(str, Len(Flatten(OutputLines(str))) + 1, Len(str))

\* The records the capacity rule has already cut from the open line.
RECURSIVE CutOpenLine(_)
CutOpenLine(line) ==
    IF Len(line) < PTY_LINE_LEN - 1 THEN <<>>
    ELSE <<Append(SubSeq(line, 1, PTY_LINE_LEN - 1), "LF")>>
             \o CutOpenLine(SubSeq(line, PTY_LINE_LEN, Len(line)))

\* C33 (as stated): every output line gives exactly one record, the line
\* with a trailing "\r\n" replaced by "\n" and otherwise unchanged, however
\* its bytes were spread over the reads.
C33_OneRecordPerLine ==
    SubSeq(child_log, 1, Len(OutputLines(pty_stream))) =
        [i \in 1..Len(OutputLines(pty_stream)) |-> LineRecord(OutputLines(pty_stream)[i])]

\* C33 (amended): every output line of at most PTY_LINE_LEN - 1 bytes, its
\* terminator included, gives exactly one record, the line with a trailing
\* "\r\n" replaced by "\n" and otherwise unchanged, however its bytes were
\* spread over the reads; a longer line is cut every PTY_LINE_LEN - 1 bytes
\* and only the "\r\n" of its last piece is rewritten.
C33_OneRecordPerShortLine ==
    /\ child_log = LineRecords(pty_stream) \o CutOpenLine(OpenLine(pty_stream))
    /\ (\A i \in 1..Len(OutputLines(pty_stream)) :
            Len(OutputLines(pty_stream)[i]) <= PTY_LINE_LEN - 1) =>
           SubSeq(child_log, 1, Len(OutputLines(pty_stream))) =
               [i \in 1..Len(OutputLines(pty_stream)) |->
                    LineRecord(OutputLines(pty_stream)[i])]

\* The line "a\r\n", which took at least two reads, has given the single
\* record "a\n".
C33_Witness ==
    /\ pty_stream = <<"a", "CR", "LF">>
    /\ child_log = << <<"a", "LF">> >>
    /\ pty_data = <<>>

\* ---- C34
\* C34: while the supervisor runs it holds one read and one write descriptor
\* on its signal pipe, and one read and one write descriptor on the command
\* fifo if one is configured (none otherwise), also after the fifo has been
\* made anew on a read error: the descriptors it replaces are closed.
C34_OnePipeOneFifo ==
    Running =>
        /\ open_fds["pipe_r"] = 1
        /\ open_fds["pipe_w"] = 1
        /\ open_fds["fifo_r"] = (IF command_fifo_name THEN 1 ELSE 0)
        /\ open_fds["fifo_w"] = (IF command_fifo_name THEN 1 ELSE 0)

\* ---- C35
\* What the child has done when it reaches the target, for its configuration.
Prepared(c) ==
    <<"close_pipe_r", "close_pipe_w">>
    \o (IF command_fifo_name THEN <<"close_fifo_r", "close_fifo_w">> ELSE <<>>)
    \o <<"env">>
    \o (IF c.groupname THEN <<"setgid">> ELSE <<>>)
    \o (IF c.uid # 0 THEN <<"setuid">> ELSE <<>>)
    \o (IF c.dir THEN <<"chdir">> ELSE <<>>)
    \o (IF c.startup_sh THEN <<"hook">> ELSE <<>>)

IsPrefix(a, b) == Len(a) <= Len(b) /\ SubSeq(b, 1, Len(a)) = a

\* C35: in the forked child the target is exec'd only after the inherited
\* pipe and fifo descriptors were closed, the env changes applied, the group
\* and then the user dropped and the directory changed (each when
\* configured) and the startup hook run, in this order; a failing setgid,
\* setuid, chdir or exec, or a hook killed by INT or QUIT, ends the child
\* with status 99 and the target does not run.
C35_ExecAfterPreparation ==
    LET b == child_branch IN
    /\ IsPrefix(b.done, Prepared(b.cfg) \o <<"exec">>)
    /\ b.at = "target" <=>
          (b.done = Prepared(b.cfg) \o <<"exec">> /\ b.at # "exited")
    /\ b.at = "target" => b.failed = "none" /\ b.status = -1
    /\ b.failed # "none" =>
          /\ b.at = "exited"
          /\ b.status = 99
          /\ proc[child_pid] = "zombie"
    /\ b.at = "exited" => b.failed \in {"setgid", "setuid", "chdir", "hook", "exec"}

C35_Witness ==
    /\ child_branch.at = "target"
    /\ child_branch.cfg = [groupname |-> TRUE, uid |-> 1, dir |-> TRUE,
                           startup_sh |-> TRUE]
    /\ command_fifo_name
    /\ proc[child_pid] = "running"

\* ---- C36
\* C36: pty_fd is present only while a child is tracked: it becomes present
\* only in a step that spawns a child successfully, it is absent after every
\* step that reaps the tracked child, and a failed fork leaves it absent.
C36_PtyNeedsChild ==
    /\ [](pty_fd # NoFd => child_pid # NoPid)
    /\ [][ /\ (pty_fd = NoFd /\ pty_fd' # NoFd) =>
                  (spawn_tried' /\ child_pid = NoPid /\ child_pid' # NoPid)
           /\ (child_pid # NoPid /\ child_pid' = NoPid) => pty_fd' = NoFd
           /\ (spawn_tried' /\ child_pid' = NoPid) => pty_fd' = NoFd ]_vars

\* A fork has just failed after an earlier child was reaped.
C36_Witness ==
    /\ Running
    /\ spawn_tried
    /\ child_pid = NoPid
    /\ pty_fd = NoFd
    /\ child_wait_time = ForkFailWait
    /\ pc # "select"

\* ---- C37
\* C37: while the supervisor runs, a pid file that it created exists; neither
\* a child's death, nor a failed fork, nor a failure in the forked child
\* branch removes it.
C37_PidFileWhileRunning == (Running /\ pid_file) => pid_file_exists

\* ---- C38
\* C38: between handler invocations, exit_when_child_dies set implies that a
\* child is tracked, and no step taken with the latch set spawns a child
\* or tries to, whether or not Usr2 or '+' has re-enabled monitoring.
C38_LatchedHasChild ==
    /\ []((Running /\ do_exit) => child_pid # NoPid)
    /\ [][ do_exit => (~SpawnStep /\ ~spawn_tried') ]_vars

\* The latch is set, and monitoring was re-enabled afterwards by Usr2.
C38_Witness ==
    /\ Running
    /\ do_exit
    /\ do_restart
    /\ prev_event = "2"
    /\ child_pid # NoPid

\* ---- C39
\* C39: no signal handler stalls the supervisor: with the signal pipe full
\* the handler's write returns at once and the token is dropped, so the
\* supervisor is never stuck inside a handler.
C39_HandlerNeverBlocks == pc # "blocked"

\* ---- C40
\* C40: after any number n >= 1 of envlist_add calls on a list from
\* envlist_new, the array that the list's env pointer refers to is allocated
\* (not freed), no store went outside it, and it holds the n strings in
\* the order they were added, followed by a NULL.
C40_ListWellFormed ==
    (envl.at = "list" /\ envl.added # <<>>) =>
        /\ envl.env # NullBlock
        /\ envl.env \notin envl.freed
        /\ ~envl.stray
        /\ envl.len = Len(envl.added)
        /\ envl.len + 1 <= envl.size[envl.env]
        /\ SubSeq(envl.cells[envl.env], 1, envl.len) = envl.added
        /\ envl.cells[envl.env][envl.len + 1] = "NULL"

====
